---- MODULE Spec2Model ----
(***************************************************************************)
(* The in-memory claims engine of the Claims Management System:            *)
(* ClaimsManagementSystem of SCMS_Enhanced_business_rules.py (the same     *)
(* class is repeated in SCMS_api.py).  Three dictionaries, policyholders,  *)
(* policies and claims, and the create / update / delete operations with   *)
(* their validation and their cascading deletes.                           *)
(*                                                                         *)
(* Modelling conventions                                                   *)
(*   - a datetime is an integer number of ticks; a day is TicksPerDay      *)
(*     ticks, so a datetime may carry a time of day, and timedelta.days    *)
(*     is the floor division by TicksPerDay;                               *)
(*   - a str is a sequence of one-character tokens, "" is << >>;           *)
(*   - an Optional argument is None (<< >>) or Some(v) (<<v>>);            *)
(*   - a raised exception is the result of the call: "NotFound",           *)
(*     "DuplicateKey" and "InvalidFormat" are the three families of        *)
(*     ValidationError messages, "BusinessRuleViolation" is the other      *)
(*     exception class, "ok" is a normal return;                           *)
(*   - a call of the engine is one step: the engine is synchronous and     *)
(*     single-threaded.  The variable last records the call just made;     *)
(*   - the specifications of the last sections run the calls statement by  *)
(*     statement on the threads of the HTTP server, which share the one    *)
(*     engine of SCMS_api without a lock.  The variable calls holds the    *)
(*     call stack of each thread and the results of its finished calls.    *)
(***************************************************************************)
EXTENDS Integers, Sequences, FiniteSets, TLC

VARIABLES policyholders, policies, claims, now, last, calls

vars == <<policyholders, policies, claims, now, last, calls>>

(***************************************************************************)
(* Bounds of the model and constants of the program.                       *)
(***************************************************************************)
\* Resolution of the clock: ticks in one day.
TicksPerDay == 2
\* Largest coverage amount, premium and claim amount that is tried.
MaxAmount == 2
\* Number of times the clock advances.
MaxClock == 1
\* 18 * 365 of _validate_policy and _validate_date_of_birth.
AdultYears == 18
DaysPerYear == 365
\* 30 of _validate_claim.
MaxSubmitDays == 30

\* datetime(day d, 00:00) in ticks.
Midnight(d) == d * TicksPerDay
\* timedelta.days: whole days, rounded towards minus infinity.
days(delta) == delta \div TicksPerDay

(***************************************************************************)
(* Python values.                                                          *)
(***************************************************************************)
None == << >>
Some(v) == <<v>>
\* "if x:" on an Optional[str]: None and "" are both false.
TruthyStr(o) == o # None /\ o[1] # << >>
\* "if x is not None:", and "if x:" on a datetime or an Enum member, which
\* are always true.
IsGiven(o) == o # None

OK == "ok"
NotFound == "NotFound"
DuplicateKey == "DuplicateKey"
InvalidFormat == "InvalidFormat"
BusinessRuleViolation == "BusinessRuleViolation"

\* The exception class of a failure.
ExceptionClass(res) ==
    IF res = BusinessRuleViolation THEN "BusinessRuleViolation" ELSE "ValidationError"

\* ClaimStatus
SUBMITTED == "Submitted"
UNDER_REVIEW == "Under Review"
APPROVED == "Approved"
REJECTED == "Rejected"
CLOSED == "Closed"
ClaimStatus == {SUBMITTED, UNDER_REVIEW, APPROVED, REJECTED, CLOSED}

\* dict helpers
Remove(d, k) == [x \in (DOMAIN d) \ {k} |-> d[x]]
Put(d, k, v) == [x \in (DOMAIN d) \cup {k} |-> IF x = k THEN v ELSE d[x]]
EmptyDict == << >>

\* The keys of a set in the order a list comprehension over the dict visits
\* them (a fixed order: no operation depends on it when calls are sequential).
RECURSIVE KeyList(_)
KeyList(S) ==
    IF S = {} THEN << >>
    ELSE LET k == CHOOSE x \in S : TRUE IN <<k>> \o KeyList(S \ {k})

(***************************************************************************)
(* Field validators.                                                       *)
(***************************************************************************)
AsciiDigits == {"0", "1", "2", "3", "4", "5", "6", "7", "8", "9"}
\* \d of a str pattern also matches the decimal digits of other scripts.
OtherDigits == {"U+0663"}
IsDigit(c) == c \in AsciiDigits \cup OtherDigits

\* re.match(r"[^@]+@[^@]+\.[^@]+", email): a match of a prefix of email.
EmailMatches(email) ==
    \E i \in 1..Len(email), j \in 1..Len(email) :
        /\ i >= 2
        /\ \A k \in 1..(i - 1) : email[k] # "@"
        /\ email[i] = "@"
        /\ j >= i + 2
        /\ \A k \in (i + 1)..(j - 1) : email[k] # "@"
        /\ email[j] = "."
        /\ j + 1 <= Len(email)
        /\ email[j + 1] # "@"

_validate_email(email) ==
    IF EmailMatches(email) THEN OK ELSE InvalidFormat

\* re.match(r"^\+?1?\d{9,15}$", phone): $ also matches before a final "\n".
PhoneBodyMatches(body) ==
    \E plus \in {0, 1}, one \in {0, 1} :
        /\ plus + one <= Len(body)
        /\ plus = 1 => body[1] = "+"
        /\ one = 1 => body[plus + 1] = "1"
        /\ Len(body) - plus - one \in 9..15
        /\ \A k \in (plus + one + 1)..Len(body) : IsDigit(body[k])

PhoneMatches(phone) ==
    \/ PhoneBodyMatches(phone)
    \/ /\ Len(phone) >= 1
       /\ phone[Len(phone)] = "\n"
       /\ PhoneBodyMatches(SubSeq(phone, 1, Len(phone) - 1))

_validate_phone_number(phone) ==
    IF PhoneMatches(phone) THEN OK ELSE InvalidFormat

\* _validate_date_of_birth refusing the age of exactly 18 * 365 days.
_validate_date_of_birth_BoundaryExcluded(date_of_birth, clock) ==
    IF date_of_birth > clock THEN InvalidFormat
    ELSE IF days(clock - date_of_birth) <= AdultYears * DaysPerYear
         THEN BusinessRuleViolation
         ELSE OK

_validate_date_of_birth(date_of_birth, clock) ==
    IF date_of_birth > clock THEN InvalidFormat
    ELSE IF days(clock - date_of_birth) < AdultYears * DaysPerYear
         THEN BusinessRuleViolation
         ELSE OK

_validate_policyholder(policyholder, clock) ==
    IF _validate_email(policyholder.email) # OK
    THEN _validate_email(policyholder.email)
    ELSE IF _validate_phone_number(policyholder.contact_number) # OK
         THEN _validate_phone_number(policyholder.contact_number)
         ELSE _validate_date_of_birth(policyholder.date_of_birth, clock)

(***************************************************************************)
(* Cross-entity validators.                                                *)
(***************************************************************************)
\* _validate_policy without its comparison of the two dates.
_validate_policy_NoDateCheck(phs, policy) ==
    IF policy.policyholder_id \notin DOMAIN phs THEN NotFound
    ELSE IF policy.coverage_amount <= 0 THEN InvalidFormat
    ELSE IF policy.premium <= 0 THEN InvalidFormat
    ELSE IF days(policy.start_date - phs[policy.policyholder_id].date_of_birth)
                < AdultYears * DaysPerYear
         THEN BusinessRuleViolation
         ELSE OK

_validate_policy(phs, policy) ==
    IF policy.policyholder_id \notin DOMAIN phs THEN NotFound
    ELSE IF policy.start_date >= policy.end_date THEN InvalidFormat
    ELSE IF policy.coverage_amount <= 0 THEN InvalidFormat
    ELSE IF policy.premium <= 0 THEN InvalidFormat
    ELSE IF days(policy.start_date - phs[policy.policyholder_id].date_of_birth)
                < AdultYears * DaysPerYear
         THEN BusinessRuleViolation
         ELSE OK

\* _validate_claim refusing an amount equal to the coverage.
_validate_claim_BelowCoverage(pols, claim) ==
    IF claim.policy_id \notin DOMAIN pols THEN NotFound
    ELSE LET policy == pols[claim.policy_id] IN
         IF \/ claim.date_of_incident < policy.start_date
            \/ claim.date_of_incident > policy.end_date
         THEN InvalidFormat
         ELSE IF claim.amount <= 0 \/ claim.amount >= policy.coverage_amount
         THEN InvalidFormat
         ELSE IF claim.date_submitted < claim.date_of_incident
         THEN InvalidFormat
         ELSE IF days(claim.date_submitted - claim.date_of_incident) > MaxSubmitDays
         THEN BusinessRuleViolation
         ELSE OK

_validate_claim(pols, claim) ==
    IF claim.policy_id \notin DOMAIN pols THEN NotFound
    ELSE LET policy == pols[claim.policy_id] IN
         IF \/ claim.date_of_incident < policy.start_date
            \/ claim.date_of_incident > policy.end_date
         THEN InvalidFormat
         ELSE IF claim.amount <= 0 \/ claim.amount > policy.coverage_amount
         THEN InvalidFormat
         ELSE IF claim.date_submitted < claim.date_of_incident
         THEN InvalidFormat
         ELSE IF days(claim.date_submitted - claim.date_of_incident) > MaxSubmitDays
         THEN BusinessRuleViolation
         ELSE OK

(***************************************************************************)
(* The operations, as functions of the dictionaries they read: each gives  *)
(* the result of the call and the dictionaries as the call leaves them.    *)
(* An update changes the stored object itself, field by field, so what it  *)
(* wrote before an exception was raised stays written.                     *)
(***************************************************************************)
\* create_policyholder with the duplicate check ahead of the validators.
create_policyholder_DuplicateFirst(phs, policyholder, clock) ==
    LET v == _validate_policyholder(policyholder, clock) IN
    IF policyholder.id \in DOMAIN phs
    THEN [res |-> DuplicateKey, policyholders |-> phs]
    ELSE IF v # OK THEN [res |-> v, policyholders |-> phs]
         ELSE [res |-> OK, policyholders |-> Put(phs, policyholder.id, policyholder)]

\* create_policyholder returning normally without storing the policyholder.
create_policyholder_Unstored(phs, policyholder, clock) ==
    LET v == _validate_policyholder(policyholder, clock) IN
    IF v # OK THEN [res |-> v, policyholders |-> phs]
    ELSE IF policyholder.id \in DOMAIN phs
         THEN [res |-> DuplicateKey, policyholders |-> phs]
         ELSE [res |-> OK, policyholders |-> phs]

create_policyholder(phs, policyholder, clock) ==
    LET v == _validate_policyholder(policyholder, clock) IN
    IF v # OK THEN [res |-> v, policyholders |-> phs]
    ELSE IF policyholder.id \in DOMAIN phs
         THEN [res |-> DuplicateKey, policyholders |-> phs]
         ELSE [res |-> OK, policyholders |-> Put(phs, policyholder.id, policyholder)]

\* get_policyholder finding nothing.
get_policyholder_Missing(phs, policyholder_id) == None

get_policyholder(phs, policyholder_id) ==
    IF policyholder_id \in DOMAIN phs THEN Some(phs[policyholder_id]) ELSE None

\* update_policyholder without its validators: every provided field is written.
update_policyholder_Unvalidated(phs, policyholder_id, name, contact_number, email, date_of_birth, clock) ==
    IF policyholder_id \notin DOMAIN phs
    THEN [res |-> NotFound, policyholders |-> phs]
    ELSE
    LET p0 == phs[policyholder_id]
        p1 == IF TruthyStr(name) THEN [p0 EXCEPT !.name = name[1]] ELSE p0
        p2 == IF TruthyStr(contact_number)
              THEN [p1 EXCEPT !.contact_number = contact_number[1]] ELSE p1
        p3 == IF TruthyStr(email) THEN [p2 EXCEPT !.email = email[1]] ELSE p2
        p4 == IF IsGiven(date_of_birth)
              THEN [p3 EXCEPT !.date_of_birth = date_of_birth[1]] ELSE p3
    IN  [res |-> OK, policyholders |-> [phs EXCEPT ![policyholder_id] = p4]]

\* update_policyholder validating every provided field before writing any.
update_policyholder_AllOrNothing(phs, policyholder_id, name, contact_number, email, date_of_birth, clock) ==
    IF policyholder_id \notin DOMAIN phs
    THEN [res |-> NotFound, policyholders |-> phs]
    ELSE
    LET r == update_policyholder_Unvalidated(phs, policyholder_id, name,
                 contact_number, email, date_of_birth, clock)
        v == IF TruthyStr(contact_number) /\ _validate_phone_number(contact_number[1]) # OK
             THEN InvalidFormat
             ELSE IF TruthyStr(email) /\ _validate_email(email[1]) # OK
             THEN InvalidFormat
             ELSE IF IsGiven(date_of_birth)
                  THEN _validate_date_of_birth(date_of_birth[1], clock) ELSE OK
    IN  IF v = OK THEN r ELSE [res |-> v, policyholders |-> phs]

update_policyholder(phs, policyholder_id, name, contact_number, email, date_of_birth, clock) ==
    IF policyholder_id \notin DOMAIN phs
    THEN [res |-> NotFound, policyholders |-> phs]
    ELSE
    LET p0 == phs[policyholder_id]
        p1 == IF TruthyStr(name) THEN [p0 EXCEPT !.name = name[1]] ELSE p0
        r2 == IF TruthyStr(contact_number)
              THEN _validate_phone_number(contact_number[1]) ELSE OK
        p2 == IF TruthyStr(contact_number) /\ r2 = OK
              THEN [p1 EXCEPT !.contact_number = contact_number[1]] ELSE p1
        r3 == IF r2 # OK THEN r2
              ELSE IF TruthyStr(email) THEN _validate_email(email[1]) ELSE OK
        p3 == IF TruthyStr(email) /\ r3 = OK
              THEN [p2 EXCEPT !.email = email[1]] ELSE p2
        r4 == IF r3 # OK THEN r3
              ELSE IF IsGiven(date_of_birth)
                   THEN _validate_date_of_birth(date_of_birth[1], clock) ELSE OK
        p4 == IF IsGiven(date_of_birth) /\ r4 = OK
              THEN [p3 EXCEPT !.date_of_birth = date_of_birth[1]] ELSE p3
    IN  [res |-> r4, policyholders |-> [phs EXCEPT ![policyholder_id] = p4]]

\* delete_claim returning normally for an id that is not stored.
delete_claim_IgnoreAbsent(cls, claim_id) ==
    IF claim_id \notin DOMAIN cls
    THEN [res |-> OK, claims |-> cls]
    ELSE [res |-> OK, claims |-> Remove(cls, claim_id)]

delete_claim(cls, claim_id) ==
    IF claim_id \notin DOMAIN cls
    THEN [res |-> NotFound, claims |-> cls]
    ELSE [res |-> OK, claims |-> Remove(cls, claim_id)]

\* for claim_id in claims_to_delete: self.delete_claim(claim_id)
RECURSIVE delete_claims_loop(_, _)
delete_claims_loop(cls, claims_to_delete) ==
    IF claims_to_delete = << >> THEN [res |-> OK, claims |-> cls]
    ELSE LET r == delete_claim(cls, Head(claims_to_delete)) IN
         IF r.res # OK THEN r
         ELSE delete_claims_loop(r.claims, Tail(claims_to_delete))

\* claims_to_delete without its filter on policy_id.
claims_of_policy_All(cls, policy_id) == DOMAIN cls

claims_of_policy(cls, policy_id) ==
    {c \in DOMAIN cls : cls[c].policy_id = policy_id}

delete_policy(pols, cls, policy_id) ==
    IF policy_id \notin DOMAIN pols
    THEN [res |-> NotFound, policies |-> pols, claims |-> cls]
    ELSE LET claims_to_delete == KeyList(claims_of_policy(cls, policy_id))
             r == delete_claims_loop(cls, claims_to_delete)
         IN  [res |-> r.res, policies |-> Remove(pols, policy_id), claims |-> r.claims]

\* The loop over policies_to_delete left after its first round.
delete_policies_loop_FirstOnly(pols, cls, policies_to_delete) ==
    IF policies_to_delete = << >>
    THEN [res |-> OK, policies |-> pols, claims |-> cls]
    ELSE delete_policy(pols, cls, Head(policies_to_delete))

\* for policy_id in policies_to_delete: self.delete_policy(policy_id)
RECURSIVE delete_policies_loop(_, _, _)
delete_policies_loop(pols, cls, policies_to_delete) ==
    IF policies_to_delete = << >>
    THEN [res |-> OK, policies |-> pols, claims |-> cls]
    ELSE LET r == delete_policy(pols, cls, Head(policies_to_delete)) IN
         IF r.res # OK THEN r
         ELSE delete_policies_loop(r.policies, r.claims, Tail(policies_to_delete))

policies_of_policyholder(pols, policyholder_id) ==
    {p \in DOMAIN pols : pols[p].policyholder_id = policyholder_id}

\* delete_policyholder without the loop over policies_to_delete.
delete_policyholder_NoCascade(phs, pols, cls, policyholder_id) ==
    IF policyholder_id \notin DOMAIN phs
    THEN [res |-> NotFound, policyholders |-> phs, policies |-> pols, claims |-> cls]
    ELSE [res |-> OK, policyholders |-> Remove(phs, policyholder_id),
          policies |-> pols, claims |-> cls]

delete_policyholder(phs, pols, cls, policyholder_id) ==
    IF policyholder_id \notin DOMAIN phs
    THEN [res |-> NotFound, policyholders |-> phs, policies |-> pols, claims |-> cls]
    ELSE LET policies_to_delete ==
                 KeyList(policies_of_policyholder(pols, policyholder_id))
             r == delete_policies_loop(pols, cls, policies_to_delete)
         IN  [res |-> r.res, policyholders |-> Remove(phs, policyholder_id),
              policies |-> r.policies, claims |-> r.claims]

\* create_policy with the duplicate check ahead of the field checks, as in
\* the version of the engine without business rules.
create_policy_DuplicateFirst(phs, pols, policy) ==
    LET v == _validate_policy(phs, policy) IN
    IF v = NotFound THEN [res |-> v, policies |-> pols]
    ELSE IF policy.id \in DOMAIN pols
         THEN [res |-> DuplicateKey, policies |-> pols]
         ELSE IF v # OK THEN [res |-> v, policies |-> pols]
              ELSE [res |-> OK, policies |-> Put(pols, policy.id, policy)]

create_policy(phs, pols, policy) ==
    LET v == _validate_policy(phs, policy) IN
    IF v # OK THEN [res |-> v, policies |-> pols]
    ELSE IF policy.id \in DOMAIN pols
         THEN [res |-> DuplicateKey, policies |-> pols]
         ELSE [res |-> OK, policies |-> Put(pols, policy.id, policy)]

get_policy(pols, policy_id) ==
    IF policy_id \in DOMAIN pols THEN Some(pols[policy_id]) ELSE None

\* update_policy that validates only when some field is given.
update_policy_SkipWhenEmpty(phs, pols, policy_id, type, start_date, end_date, coverage_amount, premium) ==
    IF policy_id \notin DOMAIN pols
    THEN [res |-> NotFound, policies |-> pols]
    ELSE
    LET p0 == pols[policy_id]
        p1 == IF TruthyStr(type) THEN [p0 EXCEPT !.type = type[1]] ELSE p0
        p2 == IF IsGiven(start_date)
              THEN [p1 EXCEPT !.start_date = start_date[1]] ELSE p1
        p3 == IF IsGiven(end_date)
              THEN [p2 EXCEPT !.end_date = end_date[1]] ELSE p2
        p4 == IF IsGiven(coverage_amount)
              THEN [p3 EXCEPT !.coverage_amount = coverage_amount[1]] ELSE p3
        p5 == IF IsGiven(premium)
              THEN [p4 EXCEPT !.premium = premium[1]] ELSE p4
    IN  [res |-> IF p5 = p0 /\ ~IsGiven(start_date) /\ ~IsGiven(end_date)
                    /\ ~IsGiven(coverage_amount) /\ ~IsGiven(premium)
                 THEN OK ELSE _validate_policy(phs, p5),
         policies |-> [pols EXCEPT ![policy_id] = p5]]

update_policy(phs, pols, policy_id, type, start_date, end_date, coverage_amount, premium) ==
    IF policy_id \notin DOMAIN pols
    THEN [res |-> NotFound, policies |-> pols]
    ELSE
    LET p0 == pols[policy_id]
        p1 == IF TruthyStr(type) THEN [p0 EXCEPT !.type = type[1]] ELSE p0
        p2 == IF IsGiven(start_date)
              THEN [p1 EXCEPT !.start_date = start_date[1]] ELSE p1
        p3 == IF IsGiven(end_date)
              THEN [p2 EXCEPT !.end_date = end_date[1]] ELSE p2
        p4 == IF IsGiven(coverage_amount)
              THEN [p3 EXCEPT !.coverage_amount = coverage_amount[1]] ELSE p3
        p5 == IF IsGiven(premium)
              THEN [p4 EXCEPT !.premium = premium[1]] ELSE p4
    IN  [res |-> _validate_policy(phs, p5),
         policies |-> [pols EXCEPT ![policy_id] = p5]]

create_claim(pols, cls, claim) ==
    LET v == _validate_claim(pols, claim) IN
    IF v # OK THEN [res |-> v, claims |-> cls]
    ELSE IF claim.id \in DOMAIN cls
         THEN [res |-> DuplicateKey, claims |-> cls]
         ELSE [res |-> OK, claims |-> Put(cls, claim.id, claim)]

get_claim(cls, claim_id) ==
    IF claim_id \in DOMAIN cls THEN Some(cls[claim_id]) ELSE None

\* update_claim with the amount tested like the description: an amount of
\* 0 is skipped instead of written.
update_claim_AmountTruthy(pols, cls, claim_id, description, amount, status) ==
    IF claim_id \notin DOMAIN cls
    THEN [res |-> NotFound, claims |-> cls]
    ELSE
    LET c0 == cls[claim_id]
        c1 == IF TruthyStr(description)
              THEN [c0 EXCEPT !.description = description[1]] ELSE c0
        c2 == IF IsGiven(amount) /\ amount[1] # 0
              THEN [c1 EXCEPT !.amount = amount[1]] ELSE c1
        c3 == IF IsGiven(status) THEN [c2 EXCEPT !.status = status[1]] ELSE c2
    IN  [res |-> _validate_claim(pols, c3),
         claims |-> [cls EXCEPT ![claim_id] = c3]]

\* update_claim that stamps the claim as submitted on the day of the
\* incident whenever a status is given.
update_claim_Resubmitted(pols, cls, claim_id, description, amount, status) ==
    IF claim_id \notin DOMAIN cls
    THEN [res |-> NotFound, claims |-> cls]
    ELSE
    LET c0 == cls[claim_id]
        c1 == IF TruthyStr(description)
              THEN [c0 EXCEPT !.description = description[1]] ELSE c0
        c2 == IF IsGiven(amount) THEN [c1 EXCEPT !.amount = amount[1]] ELSE c1
        c3 == IF IsGiven(status)
              THEN [c2 EXCEPT !.status = status[1],
                              !.date_submitted = c0.date_of_incident + 1]
              ELSE c2
    IN  [res |-> _validate_claim(pols, c3),
         claims |-> [cls EXCEPT ![claim_id] = c3]]

\* update_claim that validates only when an amount is given.
update_claim_AmountOnlyValidated(pols, cls, claim_id, description, amount, status) ==
    IF claim_id \notin DOMAIN cls
    THEN [res |-> NotFound, claims |-> cls]
    ELSE
    LET c0 == cls[claim_id]
        c1 == IF TruthyStr(description)
              THEN [c0 EXCEPT !.description = description[1]] ELSE c0
        c2 == IF IsGiven(amount) THEN [c1 EXCEPT !.amount = amount[1]] ELSE c1
        c3 == IF IsGiven(status) THEN [c2 EXCEPT !.status = status[1]] ELSE c2
    IN  [res |-> IF IsGiven(amount) THEN _validate_claim(pols, c3) ELSE OK,
         claims |-> [cls EXCEPT ![claim_id] = c3]]

\* update_claim with the guard of the SCMS_CRUD variant: the status of a
\* Closed claim cannot be changed.
update_claim_ClosedGuard(pols, cls, claim_id, description, amount, status) ==
    IF claim_id \notin DOMAIN cls
    THEN [res |-> NotFound, claims |-> cls]
    ELSE IF IsGiven(status) /\ cls[claim_id].status = CLOSED
    THEN [res |-> InvalidFormat, claims |-> cls]
    ELSE
    LET c0 == cls[claim_id]
        c1 == IF TruthyStr(description)
              THEN [c0 EXCEPT !.description = description[1]] ELSE c0
        c2 == IF IsGiven(amount) THEN [c1 EXCEPT !.amount = amount[1]] ELSE c1
        c3 == IF IsGiven(status) THEN [c2 EXCEPT !.status = status[1]] ELSE c2
    IN  [res |-> _validate_claim(pols, c3),
         claims |-> [cls EXCEPT ![claim_id] = c3]]

update_claim(pols, cls, claim_id, description, amount, status) ==
    IF claim_id \notin DOMAIN cls
    THEN [res |-> NotFound, claims |-> cls]
    ELSE
    LET c0 == cls[claim_id]
        c1 == IF TruthyStr(description)
              THEN [c0 EXCEPT !.description = description[1]] ELSE c0
        c2 == IF IsGiven(amount) THEN [c1 EXCEPT !.amount = amount[1]] ELSE c1
        c3 == IF IsGiven(status) THEN [c2 EXCEPT !.status = status[1]] ELSE c2
    IN  [res |-> _validate_claim(pols, c3),
         claims |-> [cls EXCEPT ![claim_id] = c3]]

(***************************************************************************)
(* The calls, as steps of the engine.  last records the call just made:    *)
(* its name, the id it was given, its result and, for a delete, the ids    *)
(* its cascade collected (policies_to_delete, claims_to_delete).           *)
(***************************************************************************)
Call(op, id, res) ==
    [op |-> op, id |-> id, res |-> res,
     policies_to_delete |-> {}, claims_to_delete |-> {}]

CreatePolicyholder(policyholder) ==
    LET r == create_policyholder(policyholders, policyholder, now) IN
    /\ policyholders' = r.policyholders
    /\ last' = Call("create_policyholder", policyholder.id, r.res)
    /\ UNCHANGED <<policies, claims, now, calls>>

UpdatePolicyholder(policyholder_id, name, contact_number, email, date_of_birth) ==
    LET r == update_policyholder(policyholders, policyholder_id, name,
                                 contact_number, email, date_of_birth, now) IN
    /\ policyholders' = r.policyholders
    /\ last' = Call("update_policyholder", policyholder_id, r.res)
    /\ UNCHANGED <<policies, claims, now, calls>>

DeletePolicyholder(policyholder_id) ==
    LET r == delete_policyholder(policyholders, policies, claims, policyholder_id)
        ps == IF policyholder_id \in DOMAIN policyholders
              THEN policies_of_policyholder(policies, policyholder_id) ELSE {}
    IN
    /\ policyholders' = r.policyholders
    /\ policies' = r.policies
    /\ claims' = r.claims
    /\ last' = [Call("delete_policyholder", policyholder_id, r.res) EXCEPT
                   !.policies_to_delete = ps,
                   !.claims_to_delete =
                       UNION {claims_of_policy(claims, p) : p \in ps}]
    /\ UNCHANGED <<now, calls>>

CreatePolicy(policy) ==
    LET r == create_policy(policyholders, policies, policy) IN
    /\ policies' = r.policies
    /\ last' = Call("create_policy", policy.id, r.res)
    /\ UNCHANGED <<policyholders, claims, now, calls>>

UpdatePolicy(policy_id, type, start_date, end_date, coverage_amount, premium) ==
    LET r == update_policy(policyholders, policies, policy_id, type, start_date,
                           end_date, coverage_amount, premium) IN
    /\ policies' = r.policies
    /\ last' = Call("update_policy", policy_id, r.res)
    /\ UNCHANGED <<policyholders, claims, now, calls>>

DeletePolicy(policy_id) ==
    LET r == delete_policy(policies, claims, policy_id) IN
    /\ policies' = r.policies
    /\ claims' = r.claims
    /\ last' = [Call("delete_policy", policy_id, r.res) EXCEPT
                   !.policies_to_delete = {},
                   !.claims_to_delete =
                       IF policy_id \in DOMAIN policies
                       THEN claims_of_policy(claims, policy_id) ELSE {}]
    /\ UNCHANGED <<policyholders, now, calls>>

CreateClaim(claim) ==
    LET r == create_claim(policies, claims, claim) IN
    /\ claims' = r.claims
    /\ last' = Call("create_claim", claim.id, r.res)
    /\ UNCHANGED <<policyholders, policies, now, calls>>

UpdateClaim(claim_id, description, amount, status) ==
    LET r == update_claim(policies, claims, claim_id, description, amount, status) IN
    /\ claims' = r.claims
    /\ last' = Call("update_claim", claim_id, r.res)
    /\ UNCHANGED <<policyholders, policies, now, calls>>

DeleteClaim(claim_id) ==
    LET r == delete_claim(claims, claim_id) IN
    /\ claims' = r.claims
    /\ last' = Call("delete_claim", claim_id, r.res)
    /\ UNCHANGED <<policyholders, policies, now, calls>>

\* A read: the call returns a value and raises nothing.
Returned(op, id, ret) ==
    [op |-> op, id |-> id, res |-> OK,
     policies_to_delete |-> {}, claims_to_delete |-> {}, ret |-> ret]

GetPolicyholder(policyholder_id) ==
    /\ last' = Returned("get_policyholder", policyholder_id,
                        get_policyholder(policyholders, policyholder_id))
    /\ UNCHANGED <<policyholders, policies, claims, now, calls>>

GetPolicy(policy_id) ==
    /\ last' = Returned("get_policy", policy_id, get_policy(policies, policy_id))
    /\ UNCHANGED <<policyholders, policies, claims, now, calls>>

GetClaim(claim_id) ==
    /\ last' = Returned("get_claim", claim_id, get_claim(claims, claim_id))
    /\ UNCHANGED <<policyholders, policies, claims, now, calls>>

(***************************************************************************)
(* Values the calls are tried with.                                        *)
(***************************************************************************)
\* Day 0 is the birthday of the oldest policyholder; the eighteenth
\* "birthday" of the engine's arithmetic is day 18 * 365.
Adult == AdultYears * DaysPerYear
ClockStart == Midnight(Adult + 40)

ValidEmail == <<"j", "@", "e", ".", "c">>
BadEmail == <<"j", "e", ".", "c">>
ValidPhone == <<"+", "1", "2", "3", "4", "5", "6", "7", "8", "9", "0">>
BadPhone == <<"+", "1", "2", "3">>
NameJ == <<"J">>
NameK == <<"K">>
TypeAuto == <<"A">>
TypeHome == <<"H">>
DescA == <<"a">>
DescB == <<"b">>

HolderPool == <<"PH001", "PH002", "PH003">>
PolicyPool == <<"POL001", "POL002", "POL003">>
ClaimPool == <<"CL001", "CL002", "CL003", "CL004">>

Policyholder(id, name, contact_number, email, date_of_birth) ==
    [id |-> id, name |-> name, contact_number |-> contact_number,
     email |-> email, date_of_birth |-> date_of_birth]

Policy(id, policyholder_id, type, start_date, end_date, coverage_amount, premium) ==
    [id |-> id, policyholder_id |-> policyholder_id, type |-> type,
     start_date |-> start_date, end_date |-> end_date,
     coverage_amount |-> coverage_amount, premium |-> premium]

Claim(id, policy_id, date_of_incident, description, amount, status, date_submitted) ==
    [id |-> id, policy_id |-> policy_id, date_of_incident |-> date_of_incident,
     description |-> description, amount |-> amount, status |-> status,
     date_submitted |-> date_submitted]

\* The request threads of the server: the two callers whose calls run
\* interleaved.
Threads == {1, 2}

\* A thread that has not made a call has no result.
NotCalled == ""

\* No thread is inside a call and none has made one.  op and res are the
\* thread's last finished call and its result; overlapped tells whether
\* the call it is in, or else its last one, ran while another thread was
\* inside a call.
NoCalls ==
    [t \in Threads |->
        [stack |-> << >>, op |-> NotCalled, res |-> NotCalled,
         overlapped |-> FALSE]]

Init ==
    /\ policyholders = EmptyDict
    /\ policies = EmptyDict
    /\ claims = EmptyDict
    /\ now = ClockStart
    /\ last = Call("__init__", "", OK)
    /\ calls = NoCalls

(***************************************************************************)
(* Spec: the relations between the three dictionaries.  Two policyholders, *)
(* two policies and NumClaims claims, any parent for each child; the       *)
(* updates change a coverage amount and a status.                          *)
(***************************************************************************)
NumClaims == 2
HolderIds == {HolderPool[i] : i \in 1..2}
PolicyIds == {PolicyPool[i] : i \in 1..2}
ClaimIds == {ClaimPool[i] : i \in 1..NumClaims}

PolicyholderInputs ==
    {Policyholder(h, NameJ, ValidPhone, e, Midnight(0)) :
        h \in HolderIds, e \in {ValidEmail}}
    \cup {Policyholder(HolderPool[1], NameJ, ValidPhone, BadEmail, Midnight(0))}

PolicyInputs ==
    {Policy(p, h, TypeAuto, Midnight(Adult), Midnight(Adult + 20), 1, 1) :
        p \in PolicyIds, h \in HolderIds}
    \cup {Policy(PolicyPool[1], HolderPool[1], TypeAuto,
                 Midnight(Adult + 20), Midnight(Adult), 1, 1)}

ClaimInputs ==
    {Claim(c, p, Midnight(Adult + 1), DescA, 1, SUBMITTED, Midnight(Adult + 2)) :
        c \in ClaimIds, p \in PolicyIds}
    \cup {Claim(ClaimPool[1], PolicyPool[1], Midnight(Adult + 1), DescA, 2,
                SUBMITTED, Midnight(Adult + 2))}

Next ==
    \/ \E ph \in PolicyholderInputs : CreatePolicyholder(ph)
    \/ \E h \in HolderIds, e \in {Some(ValidEmail), Some(BadEmail)} :
           UpdatePolicyholder(h, None, None, e, None)
    \/ \E h \in HolderIds : DeletePolicyholder(h)
    \/ \E p \in PolicyInputs : CreatePolicy(p)
    \/ \E p \in PolicyIds, cov \in {Some(0), Some(1)} :
           UpdatePolicy(p, None, None, None, cov, None)
    \/ \E p \in PolicyIds : DeletePolicy(p)
    \/ \E c \in ClaimInputs : CreateClaim(c)
    \/ \E c \in ClaimIds, st \in {Some(APPROVED)} :
           UpdateClaim(c, None, None, st)
    \/ \E c \in ClaimIds : DeleteClaim(c)

Spec == Init /\ [][Next]_vars

(***************************************************************************)
(* SpecRules: the business rules.  One policyholder, one policy and one    *)
(* claim, with the dates and amounts on both sides of every check of the   *)
(* validators, and a clock that advances.                                  *)
(***************************************************************************)
Tick ==
    /\ now < ClockStart + MaxClock
    /\ now' = now + 1
    /\ last' = Call("tick", "", OK)
    /\ UNCHANGED <<policyholders, policies, claims, calls>>

\* Adult at the start of the clock; adult then, but not yet at the earliest
\* policy start; adult only after one tick; born after the start of the clock.
BirthDates ==
    {Midnight(0), Midnight(10), Midnight(40) + 1, ClockStart + 1}
StartDates == {Midnight(Adult), Midnight(Adult + 10)}
EndDates == {Midnight(Adult + 10), Midnight(Adult + 20)}
Amounts == 0..MaxAmount
Premiums == 0..1
IncidentDate == Midnight(Adult + 5)
\* On the day, a time of day past the thirtieth day, the thirty-first day,
\* and before the incident.
SubmitDates ==
    {IncidentDate,
     IncidentDate + Midnight(MaxSubmitDays) + 1,
     IncidentDate + Midnight(MaxSubmitDays + 1),
     IncidentDate - 1}

RulesPolicyholderInputs ==
    {Policyholder(HolderPool[1], NameJ, ValidPhone, ValidEmail, d) : d \in BirthDates}

RulesPolicyInputs ==
    {Policy(PolicyPool[1], HolderPool[1], TypeAuto, s, e, c, p) :
        s \in StartDates, e \in EndDates, c \in Amounts, p \in Premiums}

RulesClaimInputs ==
    {Claim(ClaimPool[1], PolicyPool[1], IncidentDate, DescA, a, SUBMITTED, d) :
        a \in Amounts, d \in SubmitDates}

\* update_policy(type, start_date, end_date, coverage_amount, premium):
\* one field, or both dates.
RulesUpdatePolicyArgs ==
    {<<None, s, e, None, None>> :
        s \in {None} \cup {Some(d) : d \in StartDates},
        e \in {None} \cup {Some(d) : d \in EndDates}}
    \cup {<<None, None, None, Some(c), None>> : c \in Amounts}
    \cup {<<None, None, None, None, Some(p)>> : p \in Premiums}

\* update_claim(description, amount, status): one field, or all of them.
RulesUpdateClaimArgs ==
    {<<None, None, None>>, <<Some(DescB), None, None>>, <<Some(<< >>), None, None>>}
    \cup {<<None, Some(a), None>> : a \in Amounts}
    \cup {<<None, None, Some(st)>> : st \in {APPROVED, CLOSED}}
    \cup {<<Some(DescB), Some(1), Some(SUBMITTED)>>}

NextRules ==
    \/ Tick
    \/ \E ph \in RulesPolicyholderInputs : CreatePolicyholder(ph)
    \/ \E d \in BirthDates :
           UpdatePolicyholder(HolderPool[1], None, None, None, Some(d))
    \/ DeletePolicyholder(HolderPool[1])
    \/ \E p \in RulesPolicyInputs : CreatePolicy(p)
    \/ \E a \in RulesUpdatePolicyArgs :
           UpdatePolicy(PolicyPool[1], a[1], a[2], a[3], a[4], a[5])
    \/ DeletePolicy(PolicyPool[1])
    \/ \E c \in RulesClaimInputs : CreateClaim(c)
    \/ \E a \in RulesUpdateClaimArgs :
           UpdateClaim(ClaimPool[1], a[1], a[2], a[3])
    \/ DeleteClaim(ClaimPool[1])

SpecRules == Init /\ [][NextRules]_vars

(***************************************************************************)
(* SpecHolders: the fields of a policyholder.  The first policyholder is   *)
(* created and updated with accepted and rejected e-mail addresses, phone  *)
(* numbers and dates of birth, with empty strings, and with several fields *)
(* in one call; the second one stands next to it, and the first one may    *)
(* hold a policy.  The clock advances.                                     *)
(***************************************************************************)
ValidEmail2 == <<"k", "@", "e", ".", "c">>
ValidPhone2 == <<"9", "8", "7", "6", "5", "4", "3", "2", "1">>
EmptyStr == << >>

HoldersPolicyholderInputs ==
    {Policyholder(HolderPool[1], NameJ, c, e, d) :
        c \in {ValidPhone, BadPhone}, e \in {ValidEmail, BadEmail}, d \in BirthDates}
    \cup {Policyholder(HolderPool[2], NameJ, ValidPhone, e, Midnight(0)) :
              e \in {ValidEmail, BadEmail}}

\* update_policyholder(name, contact_number, email, date_of_birth): any
\* fields together, or a date of birth alone.
HoldersUpdateArgs ==
    {<<n, c, e, d>> :
        n \in {None, Some(EmptyStr), Some(NameK)},
        c \in {None, Some(EmptyStr), Some(ValidPhone2), Some(BadPhone)},
        e \in {None, Some(EmptyStr), Some(ValidEmail2), Some(BadEmail)},
        d \in {None, Some(Midnight(40) + 1)}}
    \cup {<<None, None, None, Some(d)>> : d \in {Midnight(10), ClockStart + 1}}

\* A policy of the first policyholder.
HoldersPolicy ==
    Policy(PolicyPool[1], HolderPool[1], TypeAuto, Midnight(Adult + 10),
           Midnight(Adult + 20), 1, 1)

NextHolders ==
    \/ Tick
    \/ \E ph \in HoldersPolicyholderInputs : CreatePolicyholder(ph)
    \/ \E a \in HoldersUpdateArgs :
           UpdatePolicyholder(HolderPool[1], a[1], a[2], a[3], a[4])
    \/ UpdatePolicyholder(HolderPool[2], Some(NameK), None, None, None)
    \/ \E h \in {HolderPool[1], HolderPool[2]} : DeletePolicyholder(h)
    \/ CreatePolicy(HoldersPolicy)
    \/ DeletePolicy(PolicyPool[1])

SpecHolders == Init /\ [][NextHolders]_vars

(***************************************************************************)
(* SpecCreate: the order of the checks of create_policy and create_claim.  *)
(* One policy id and one claim id, each created again while present, with  *)
(* a known and an unknown parent and with dates and amounts on both sides  *)
(* of every check; updates that change the coverage and the claimed        *)
(* amount.                                                                 *)
(***************************************************************************)
CreatePolicyholderInputs ==
    {Policyholder(HolderPool[1], NameJ, ValidPhone, ValidEmail, d) :
        d \in {Midnight(0), Midnight(10)}}

CreatePolicyInputs ==
    {Policy(PolicyPool[1], h, TypeAuto, s, e, c, p) :
        h \in {HolderPool[1], HolderPool[2]},
        s \in StartDates, e \in EndDates, c \in Amounts, p \in Premiums}

\* The dates of SubmitDates and the thirtieth day itself.
CreateSubmitDates == SubmitDates \cup {IncidentDate + Midnight(MaxSubmitDays)}

CreateClaimInputs ==
    {Claim(ClaimPool[1], p, IncidentDate, DescA, a, SUBMITTED, d) :
        p \in {PolicyPool[1], PolicyPool[2]}, a \in Amounts, d \in CreateSubmitDates}

NextCreate ==
    \/ \E ph \in CreatePolicyholderInputs : CreatePolicyholder(ph)
    \/ DeletePolicyholder(HolderPool[1])
    \/ \E p \in CreatePolicyInputs : CreatePolicy(p)
    \/ \E c \in Amounts :
           UpdatePolicy(PolicyPool[1], None, None, None, Some(c), None)
    \/ DeletePolicy(PolicyPool[1])
    \/ \E c \in CreateClaimInputs : CreateClaim(c)
    \/ \E a \in Amounts : UpdateClaim(ClaimPool[1], None, Some(a), None)
    \/ DeleteClaim(ClaimPool[1])

SpecCreate == Init /\ [][NextCreate]_vars

(***************************************************************************)
(* SpecReads: the calls of Spec together with the three read operations,   *)
(* each called with the ids of Spec and with an id that is never stored.   *)
(***************************************************************************)
ReadIds(pool, ids) == ids \cup {pool[Len(pool)]}

NextReads ==
    \/ Next
    \/ \E h \in ReadIds(HolderPool, HolderIds) : GetPolicyholder(h)
    \/ \E p \in ReadIds(PolicyPool, PolicyIds) : GetPolicy(p)
    \/ \E c \in ReadIds(ClaimPool, ClaimIds) : GetClaim(c)

SpecReads == Init /\ [][NextReads]_vars

(***************************************************************************)
(* SpecUpdates: the optional arguments of the three updates.  One          *)
(* policyholder, one policy and two claims; each update is called with     *)
(* every combination of omitted, empty and new values of its arguments,    *)
(* accepted and rejected ones.                                             *)
(***************************************************************************)
\* update_policyholder(name, contact_number, email, date_of_birth)
UpdatesPolicyholderArgs ==
    {<<n, None, e, None>> :
        n \in {None, Some(EmptyStr), Some(NameK)},
        e \in {None, Some(EmptyStr), Some(ValidEmail2), Some(BadEmail)}}
    \cup {<<None, Some(EmptyStr), None, None>>,
          <<Some(NameK), Some(ValidPhone), None, Some(Midnight(0))>>}

\* update_policy(type, start_date, end_date, coverage_amount, premium)
UpdatesPolicyArgs ==
    {<<t, s, e, c, None>> :
        t \in {None, Some(EmptyStr), Some(TypeHome)},
        s \in {None, Some(Midnight(Adult))},
        e \in {None, Some(Midnight(Adult + 10)), Some(Midnight(Adult + 20))},
        c \in {None, Some(0), Some(MaxAmount)}}
    \cup {<<None, None, None, None, Some(1)>>}

\* update_claim(description, amount, status)
UpdatesClaimArgs ==
    {<<d, a, st>> :
        d \in {None, Some(EmptyStr), Some(DescB)},
        a \in {None, Some(0), Some(1)},
        st \in {None, Some(APPROVED)}}

UpdatesClaimIds == {ClaimPool[1], ClaimPool[2]}

NextUpdates ==
    \/ CreatePolicyholder(
           Policyholder(HolderPool[1], NameJ, ValidPhone, ValidEmail, Midnight(0)))
    \/ \E a \in UpdatesPolicyholderArgs :
           UpdatePolicyholder(HolderPool[1], a[1], a[2], a[3], a[4])
    \/ DeletePolicyholder(HolderPool[1])
    \/ CreatePolicy(
           Policy(PolicyPool[1], HolderPool[1], TypeAuto, Midnight(Adult),
                  Midnight(Adult + 20), MaxAmount, 1))
    \/ \E a \in UpdatesPolicyArgs :
           UpdatePolicy(PolicyPool[1], a[1], a[2], a[3], a[4], a[5])
    \/ DeletePolicy(PolicyPool[1])
    \/ \E c \in UpdatesClaimIds :
           CreateClaim(Claim(c, PolicyPool[1], IncidentDate, DescA, 1,
                             SUBMITTED, IncidentDate))
    \/ \E a \in UpdatesClaimArgs :
           UpdateClaim(ClaimPool[1], a[1], a[2], a[3])
    \/ \E c \in UpdatesClaimIds : DeleteClaim(c)

SpecUpdates == Init /\ [][NextUpdates]_vars

(***************************************************************************)
(* SpecStatus: the status of stored claims.  Callers close claims, and set *)
(* every other status only on a claim that is Closed, so a claim with one  *)
(* of the intermediate statuses was Closed before.  The policy's coverage  *)
(* is lowered and raised, so stored claims pass and fail the validation.   *)
(***************************************************************************)
NextStatus ==
    \/ CreatePolicyholder(
           Policyholder(HolderPool[1], NameJ, ValidPhone, ValidEmail, Midnight(0)))
    \/ DeletePolicyholder(HolderPool[1])
    \/ CreatePolicy(
           Policy(PolicyPool[1], HolderPool[1], TypeAuto, Midnight(Adult),
                  Midnight(Adult + 20), MaxAmount, 1))
    \/ \E c \in {0, MaxAmount} :
           UpdatePolicy(PolicyPool[1], None, None, None, Some(c), None)
    \/ DeletePolicy(PolicyPool[1])
    \/ \E c \in UpdatesClaimIds :
           CreateClaim(Claim(c, PolicyPool[1], IncidentDate, DescA, 1,
                             SUBMITTED, IncidentDate))
    \/ \E c \in UpdatesClaimIds, d \in {None, Some(DescB)} :
           UpdateClaim(c, d, None, Some(CLOSED))
    \/ \E c \in UpdatesClaimIds, s \in ClaimStatus \ {CLOSED} :
           /\ c \in DOMAIN claims
           /\ claims[c].status = CLOSED
           /\ UpdateClaim(c, None, None, Some(s))
    \/ \E c \in UpdatesClaimIds : DeleteClaim(c)

SpecStatus == Init /\ [][NextStatus]_vars

(***************************************************************************)
(* The calls statement by statement.  A thread runs one call at a time;    *)
(* its stack holds one frame for each call in progress, the nested         *)
(* delete_policy and delete_claim of a cascade included.  A frame is at    *)
(* the statement pc of the operation op called with arg; todo is the list  *)
(* the delete loops walk and size the length of the mapping when the loop  *)
(* list began to be built.  An exception unwinds the whole stack: no       *)
(* operation catches any.                                                  *)
(***************************************************************************)
KeyError == "KeyError"
RuntimeError == "RuntimeError"

Frame(op, arg) ==
    [op |-> op, arg |-> arg,
     pc |-> IF op \in {"create_policyholder", "create_policy", "create_claim"}
            THEN "validate" ELSE "check",
     todo |-> << >>, size |-> 0]

Top(t) == calls[t].stack[Len(calls[t].stack)]
Running(t) == calls[t].stack # << >>
ArgId(f) == IF f.op \in {"create_policyholder", "create_policy", "create_claim"}
            THEN f.arg.id ELSE f.arg

\* The top frame of thread t moves to the statement pc.
Goto(t, pc) ==
    /\ calls' = [calls EXCEPT ![t].stack[Len(calls[t].stack)].pc = pc]
    /\ UNCHANGED last

\* The call of thread t ends with the exception res, raised in any frame.
Raise(t, res) ==
    LET f == calls[t].stack[1] IN
    /\ calls' = [calls EXCEPT ![t].stack = << >>, ![t].op = f.op, ![t].res = res]
    /\ last' = Call(f.op, ArgId(f), res)

\* The top frame of thread t returns: to the loop of the frame below, or
\* to the caller of the engine.
Return(t) ==
    LET f == calls[t].stack[1] IN
    IF Len(calls[t].stack) > 1
    THEN /\ calls' = [calls EXCEPT ![t].stack = SubSeq(@, 1, Len(@) - 1)]
         /\ UNCHANGED last
    ELSE /\ calls' = [calls EXCEPT ![t].stack = << >>, ![t].op = f.op, ![t].res = OK]
         /\ last' = Call(f.op, ArgId(f), OK)

\* Thread t enters the engine.  The calls that are in progress at that
\* moment, and the new one, overlap.
Begin(t, op, arg) ==
    LET others == {u \in Threads \ {t} : Running(u)} IN
    /\ ~Running(t)
    /\ calls' = [u \in Threads |->
                    IF u = t
                    THEN [calls[t] EXCEPT !.stack = <<Frame(op, arg)>>,
                                          !.overlapped = others # {}]
                    ELSE IF Running(u)
                    THEN [calls[u] EXCEPT !.overlapped = TRUE]
                    ELSE calls[u]]
    /\ UNCHANGED <<policyholders, policies, claims, now, last>>

\* Thread t enters the engine while no other thread is inside it.
BeginSerial(t, op, arg) ==
    /\ \A u \in Threads : ~Running(u)
    /\ Begin(t, op, arg)

\* create_policyholder without the test for a stored id.
StepCreatePolicyholder_NoDuplicateTest(t) ==
    LET f == Top(t) IN
    /\ Running(t) /\ f.op = "create_policyholder"
    /\ \/ /\ f.pc = "validate"
          /\ LET v == _validate_policyholder(f.arg, now) IN
             IF v # OK THEN Raise(t, v) ELSE Goto(t, "check")
          /\ UNCHANGED <<policyholders, policies, claims, now>>
       \/ /\ f.pc = "check"
          /\ Goto(t, "insert")
          /\ UNCHANGED <<policyholders, policies, claims, now>>
       \/ /\ f.pc = "insert"
          /\ policyholders' = Put(policyholders, f.arg.id, f.arg)
          /\ Return(t)
          /\ UNCHANGED <<policies, claims, now>>

StepCreatePolicyholder(t) ==
    LET f == Top(t) IN
    /\ Running(t) /\ f.op = "create_policyholder"
    /\ \/ /\ f.pc = "validate"
          /\ LET v == _validate_policyholder(f.arg, now) IN
             IF v # OK THEN Raise(t, v) ELSE Goto(t, "check")
          /\ UNCHANGED <<policyholders, policies, claims, now>>
       \/ /\ f.pc = "check"
          /\ IF f.arg.id \in DOMAIN policyholders
             THEN Raise(t, DuplicateKey) ELSE Goto(t, "insert")
          /\ UNCHANGED <<policyholders, policies, claims, now>>
       \/ /\ f.pc = "insert"
          /\ policyholders' = Put(policyholders, f.arg.id, f.arg)
          /\ Return(t)
          /\ UNCHANGED <<policies, claims, now>>

StepCreatePolicy(t) ==
    LET f == Top(t) IN
    /\ Running(t) /\ f.op = "create_policy"
    /\ \/ /\ f.pc = "validate"
          /\ LET v == _validate_policy(policyholders, f.arg) IN
             IF v # OK THEN Raise(t, v) ELSE Goto(t, "check")
          /\ UNCHANGED <<policyholders, policies, claims, now>>
       \/ /\ f.pc = "check"
          /\ IF f.arg.id \in DOMAIN policies
             THEN Raise(t, DuplicateKey) ELSE Goto(t, "insert")
          /\ UNCHANGED <<policyholders, policies, claims, now>>
       \/ /\ f.pc = "insert"
          /\ policies' = Put(policies, f.arg.id, f.arg)
          /\ Return(t)
          /\ UNCHANGED <<policyholders, claims, now>>

StepCreateClaim(t) ==
    LET f == Top(t) IN
    /\ Running(t) /\ f.op = "create_claim"
    /\ \/ /\ f.pc = "validate"
          /\ LET v == _validate_claim(policies, f.arg) IN
             IF v # OK THEN Raise(t, v) ELSE Goto(t, "check")
          /\ UNCHANGED <<policyholders, policies, claims, now>>
       \/ /\ f.pc = "check"
          /\ IF f.arg.id \in DOMAIN claims
             THEN Raise(t, DuplicateKey) ELSE Goto(t, "insert")
          /\ UNCHANGED <<policyholders, policies, claims, now>>
       \/ /\ f.pc = "insert"
          /\ claims' = Put(claims, f.arg.id, f.arg)
          /\ Return(t)
          /\ UNCHANGED <<policyholders, policies, now>>

\* The statements of a delete that walk a loop list: the list is built
\* from the mapping of the children (iter, collect), then each child is
\* deleted by a nested call (loop).  Building the list fails when the
\* mapping changes its length meanwhile.
StepCascade(t, children, childOp, childKeys) ==
    LET f == Top(t)
        n == Len(calls[t].stack) IN
    \/ /\ f.pc = "iter"
       /\ calls' = [calls EXCEPT ![t].stack[n].pc = "collect",
                                 ![t].stack[n].size = Cardinality(DOMAIN children)]
       /\ UNCHANGED <<policyholders, policies, claims, now, last>>
    \/ /\ f.pc = "collect"
       /\ IF Cardinality(DOMAIN children) # f.size
          THEN Raise(t, RuntimeError)
          ELSE /\ calls' = [calls EXCEPT ![t].stack[n].pc = "loop",
                                         ![t].stack[n].todo = KeyList(childKeys)]
               /\ UNCHANGED last
       /\ UNCHANGED <<policyholders, policies, claims, now>>
    \/ /\ f.pc = "loop"
       /\ IF f.todo = << >>
          THEN Return(t)
          ELSE /\ calls' = [calls EXCEPT
                               ![t].stack = [@ EXCEPT ![n].todo = Tail(f.todo)]
                                            \o <<Frame(childOp, Head(f.todo))>>]
               /\ UNCHANGED last
       /\ UNCHANGED <<policyholders, policies, claims, now>>

StepDeletePolicyholder(t) ==
    LET f == Top(t) IN
    /\ Running(t) /\ f.op = "delete_policyholder"
    /\ \/ /\ f.pc = "check"
          /\ IF f.arg \notin DOMAIN policyholders
             THEN Raise(t, NotFound) ELSE Goto(t, "del")
          /\ UNCHANGED <<policyholders, policies, claims, now>>
       \/ /\ f.pc = "del"
          /\ IF f.arg \notin DOMAIN policyholders
             THEN Raise(t, KeyError) /\ UNCHANGED policyholders
             ELSE Goto(t, "iter") /\ policyholders' = Remove(policyholders, f.arg)
          /\ UNCHANGED <<policies, claims, now>>
       \/ StepCascade(t, policies, "delete_policy",
                      policies_of_policyholder(policies, f.arg))

StepDeletePolicy(t) ==
    LET f == Top(t) IN
    /\ Running(t) /\ f.op = "delete_policy"
    /\ \/ /\ f.pc = "check"
          /\ IF f.arg \notin DOMAIN policies
             THEN Raise(t, NotFound) ELSE Goto(t, "del")
          /\ UNCHANGED <<policyholders, policies, claims, now>>
       \/ /\ f.pc = "del"
          /\ IF f.arg \notin DOMAIN policies
             THEN Raise(t, KeyError) /\ UNCHANGED policies
             ELSE Goto(t, "iter") /\ policies' = Remove(policies, f.arg)
          /\ UNCHANGED <<policyholders, claims, now>>
       \/ StepCascade(t, claims, "delete_claim",
                      claims_of_policy(claims, f.arg))

StepDeleteClaim(t) ==
    LET f == Top(t) IN
    /\ Running(t) /\ f.op = "delete_claim"
    /\ \/ /\ f.pc = "check"
          /\ IF f.arg \notin DOMAIN claims
             THEN Raise(t, NotFound) ELSE Goto(t, "del")
          /\ UNCHANGED <<policyholders, policies, claims, now>>
       \/ /\ f.pc = "del"
          /\ IF f.arg \notin DOMAIN claims
             THEN Raise(t, KeyError) /\ UNCHANGED claims
             ELSE Return(t) /\ claims' = Remove(claims, f.arg)
          /\ UNCHANGED <<policyholders, policies, now>>

(***************************************************************************)
(* SpecRace: two threads create records with the same ids.  Each thread    *)
(* creates a policyholder, then a policy, then a claim, each once and with *)
(* a record of its own, at any moment: inside or outside the calls of the  *)
(* other thread.                                                           *)
(***************************************************************************)
CreateOps == {"create_policyholder", "create_policy", "create_claim"}

RacePolicyholder(t) ==
    Policyholder(HolderPool[1], IF t = 1 THEN NameJ ELSE NameK,
                 ValidPhone, ValidEmail, Midnight(0))

RacePolicy(t) ==
    Policy(PolicyPool[1], HolderPool[1], IF t = 1 THEN TypeAuto ELSE TypeHome,
           Midnight(Adult), Midnight(Adult + 20), MaxAmount, 1)

RaceClaim(t) ==
    Claim(ClaimPool[1], PolicyPool[1], IncidentDate,
          IF t = 1 THEN DescA ELSE DescB, 1, SUBMITTED, IncidentDate)

RaceRecord(op, t) ==
    IF op = "create_policyholder" THEN RacePolicyholder(t)
    ELSE IF op = "create_policy" THEN RacePolicy(t)
    ELSE RaceClaim(t)

\* The create a thread makes after its call of op.
RaceProgram ==
    [op \in {NotCalled, "create_policyholder", "create_policy"} |->
        IF op = NotCalled THEN "create_policyholder"
        ELSE IF op = "create_policyholder" THEN "create_policy"
        ELSE "create_claim"]

NextRace ==
    \/ \E t \in Threads :
           /\ calls[t].op \in DOMAIN RaceProgram
           /\ Begin(t, RaceProgram[calls[t].op],
                    RaceRecord(RaceProgram[calls[t].op], t))
    \/ \E t \in Threads : StepCreatePolicyholder(t)
    \/ \E t \in Threads : StepCreatePolicy(t)
    \/ \E t \in Threads : StepCreateClaim(t)

SpecRace == Init /\ [][NextRace]_vars

(***************************************************************************)
(* SpecCascade: the creates and deletes of one caller statement by         *)
(* statement, one call at a time.                                          *)
(* One policyholder with two policies, the first with two claims and the   *)
(* second with one.                                                        *)
(***************************************************************************)
CascadePolicyholder ==
    Policyholder(HolderPool[1], NameJ, ValidPhone, ValidEmail, Midnight(0))

CascadePolicies ==
    {Policy(PolicyPool[i], HolderPool[1], TypeAuto, Midnight(Adult),
            Midnight(Adult + 20), MaxAmount, 1) : i \in 1..2}

CascadeClaims ==
    {Claim(ClaimPool[i], PolicyPool[IF i = 3 THEN 2 ELSE 1], IncidentDate,
           DescA, 1, SUBMITTED, IncidentDate) : i \in 1..3}

\* The one caller of SpecCascade.
CascadeThread == {t \in Threads : \A u \in Threads : t <= u}

NextCascade ==
    \/ \E t \in CascadeThread :
           BeginSerial(t, "create_policyholder", CascadePolicyholder)
    \/ \E t \in CascadeThread, p \in CascadePolicies :
           BeginSerial(t, "create_policy", p)
    \/ \E t \in CascadeThread, c \in CascadeClaims :
           BeginSerial(t, "create_claim", c)
    \/ \E t \in CascadeThread :
           BeginSerial(t, "delete_policyholder", HolderPool[1])
    \/ \E t \in CascadeThread, p \in CascadePolicies :
           BeginSerial(t, "delete_policy", p.id)
    \/ \E t \in CascadeThread, c \in CascadeClaims :
           BeginSerial(t, "delete_claim", c.id)
    \/ \E t \in Threads : StepCreatePolicyholder(t)
    \/ \E t \in Threads : StepCreatePolicy(t)
    \/ \E t \in Threads : StepCreateClaim(t)
    \/ \E t \in Threads : StepDeletePolicyholder(t)
    \/ \E t \in Threads : StepDeletePolicy(t)
    \/ \E t \in Threads : StepDeleteClaim(t)

SpecCascade == Init /\ [][NextCascade]_vars

(***************************************************************************)
(* The base version of the engine (SCMS_LLD): policyholders without a date *)
(* of birth, policies without a premium, claims that are submitted and     *)
(* whose status is then set by update_claim_status.  It has no deletes and *)
(* raises ValidationError only; SpecLLD is the base version called with    *)
(* stored and unknown ids and every status.                                *)
(***************************************************************************)
\* ValidationError("Cannot update a closed claim")
ClosedClaim == "ClosedClaim"

LLDPolicyholder(id, name, contact_number, email) ==
    [id |-> id, name |-> name, contact_number |-> contact_number, email |-> email]

LLDPolicy(id, policyholder_id, type, start_date, end_date, coverage_amount) ==
    [id |-> id, policyholder_id |-> policyholder_id, type |-> type,
     start_date |-> start_date, end_date |-> end_date,
     coverage_amount |-> coverage_amount]

add_policyholder(phs, policyholder) ==
    IF _validate_email(policyholder.email) # OK
    THEN [res |-> InvalidFormat, policyholders |-> phs]
    ELSE IF _validate_phone_number(policyholder.contact_number) # OK
    THEN [res |-> InvalidFormat, policyholders |-> phs]
    ELSE IF policyholder.id \in DOMAIN phs
    THEN [res |-> DuplicateKey, policyholders |-> phs]
    ELSE [res |-> OK, policyholders |-> Put(phs, policyholder.id, policyholder)]

add_policy(phs, pols, policy) ==
    IF policy.policyholder_id \notin DOMAIN phs
    THEN [res |-> NotFound, policies |-> pols]
    ELSE IF policy.id \in DOMAIN pols
    THEN [res |-> DuplicateKey, policies |-> pols]
    ELSE IF policy.start_date >= policy.end_date
    THEN [res |-> InvalidFormat, policies |-> pols]
    ELSE IF policy.coverage_amount <= 0
    THEN [res |-> InvalidFormat, policies |-> pols]
    ELSE [res |-> OK, policies |-> Put(pols, policy.id, policy)]

submit_claim(pols, cls, claim) ==
    IF claim.policy_id \notin DOMAIN pols
    THEN [res |-> NotFound, claims |-> cls]
    ELSE IF claim.id \in DOMAIN cls
    THEN [res |-> DuplicateKey, claims |-> cls]
    ELSE LET policy == pols[claim.policy_id] IN
         IF \/ claim.date_of_incident < policy.start_date
            \/ claim.date_of_incident > policy.end_date
         THEN [res |-> InvalidFormat, claims |-> cls]
         ELSE IF claim.amount <= 0 \/ claim.amount > policy.coverage_amount
         THEN [res |-> InvalidFormat, claims |-> cls]
         ELSE [res |-> OK, claims |-> Put(cls, claim.id, claim)]

\* update_claim_status without the test for a Closed claim.
update_claim_status_NoGuard(cls, claim_id, new_status) ==
    IF claim_id \notin DOMAIN cls
    THEN [res |-> NotFound, claims |-> cls]
    ELSE [res |-> OK, claims |-> [cls EXCEPT ![claim_id].status = new_status]]

update_claim_status(cls, claim_id, new_status) ==
    IF claim_id \notin DOMAIN cls
    THEN [res |-> NotFound, claims |-> cls]
    ELSE IF cls[claim_id].status = CLOSED
    THEN [res |-> ClosedClaim, claims |-> cls]
    ELSE [res |-> OK, claims |-> [cls EXCEPT ![claim_id].status = new_status]]

AddPolicyholder(policyholder) ==
    LET r == add_policyholder(policyholders, policyholder) IN
    /\ policyholders' = r.policyholders
    /\ last' = Call("add_policyholder", policyholder.id, r.res)
    /\ UNCHANGED <<policies, claims, now, calls>>

AddPolicy(policy) ==
    LET r == add_policy(policyholders, policies, policy) IN
    /\ policies' = r.policies
    /\ last' = Call("add_policy", policy.id, r.res)
    /\ UNCHANGED <<policyholders, claims, now, calls>>

SubmitClaim(claim) ==
    LET r == submit_claim(policies, claims, claim) IN
    /\ claims' = r.claims
    /\ last' = Call("submit_claim", claim.id, r.res)
    /\ UNCHANGED <<policyholders, policies, now, calls>>

UpdateClaimStatus(claim_id, new_status) ==
    LET r == update_claim_status(claims, claim_id, new_status) IN
    /\ claims' = r.claims
    /\ last' = Call("update_claim_status", claim_id, r.res)
    /\ UNCHANGED <<policyholders, policies, now, calls>>

LLDPolicyholderInputs ==
    {LLDPolicyholder(HolderPool[1], NameJ, ValidPhone, e) : e \in {ValidEmail, BadEmail}}

LLDPolicyInputs ==
    {LLDPolicy(PolicyPool[1], HolderPool[1], TypeAuto, Midnight(Adult),
               Midnight(Adult + 20), c) : c \in {0, MaxAmount}}

\* Claims submitted with the default status, and one that is submitted
\* already Under Review.
LLDClaimInputs ==
    {Claim(ClaimPool[i], PolicyPool[1], IncidentDate, DescA, a, SUBMITTED, ClockStart) :
        i \in 1..NumClaims, a \in {1, MaxAmount + 1}}
    \cup {Claim(ClaimPool[1], PolicyPool[1], IncidentDate, DescB, 1, UNDER_REVIEW,
                ClockStart)}

NextLLD ==
    \/ \E ph \in LLDPolicyholderInputs : AddPolicyholder(ph)
    \/ \E p \in LLDPolicyInputs : AddPolicy(p)
    \/ \E c \in LLDClaimInputs : SubmitClaim(c)
    \/ \E c \in ReadIds(ClaimPool, ClaimIds), s \in ClaimStatus :
           UpdateClaimStatus(c, s)

SpecLLD == Init /\ [][NextLLD]_vars

(***************************************************************************)
(* SpecDefaults: claims built with the defaults of the Claim dataclass,    *)
(* status Submitted and date_submitted the time of construction, for       *)
(* incidents of today, of thirty and thirty-one days ago and of the coming *)
(* half day, under a policy whose period covers them all.                  *)
(***************************************************************************)
\* Claim(id, policy_id, date_of_incident, description, amount), built at
\* the time clock.
ClaimWithDefaults(id, policy_id, date_of_incident, description, amount, clock) ==
    Claim(id, policy_id, date_of_incident, description, amount, SUBMITTED, clock)

CreateClaimWithDefaults(id, policy_id, date_of_incident, description, amount) ==
    CreateClaim(ClaimWithDefaults(id, policy_id, date_of_incident, description,
                                  amount, now))

DefaultsPolicy ==
    Policy(PolicyPool[1], HolderPool[1], TypeAuto, Midnight(Adult),
           ClockStart + Midnight(10), MaxAmount, 1)

DefaultsIncidentDates ==
    {ClockStart, ClockStart + 1,
     ClockStart - Midnight(MaxSubmitDays),
     ClockStart - Midnight(MaxSubmitDays + 1),
     Midnight(Adult) - 1}

DefaultsClaimInputs ==
    {<<c, p, d, a>> :
        c \in ClaimIds, p \in {PolicyPool[1], PolicyPool[2]},
        d \in DefaultsIncidentDates, a \in 0..(MaxAmount + 1)}

NextDefaults ==
    \/ Tick
    \/ CreatePolicyholder(
           Policyholder(HolderPool[1], NameJ, ValidPhone, ValidEmail, Midnight(0)))
    \/ CreatePolicy(DefaultsPolicy)
    \/ DeletePolicy(PolicyPool[1])
    \/ \E x \in DefaultsClaimInputs :
           CreateClaimWithDefaults(x[1], x[2], x[3], DescA, x[4])
    \/ \E c \in ClaimIds : DeleteClaim(c)

SpecDefaults == Init /\ [][NextDefaults]_vars

(***************************************************************************)
(* The HTTP routes of SCMS_api.  A route builds the arguments from the     *)
(* JSON body, calls the engine and maps the outcome to a status code and a *)
(* body.  Dates travel as days ("%Y-%m-%d"), statuses as their strings;    *)
(* an exception that the route's except clause does not name leaves the    *)
(* route and is answered by the server with status 500.                    *)
(***************************************************************************)
ValueError == "ValueError"

\* The results that are instances of ValidationError.
ValidationErrors == {NotFound, DuplicateKey, InvalidFormat}

\* parse_date of the string of the day d.
parse_date(d) == Midnight(d)

\* datetime.now().strftime("%Y-%m-%d")
Today(clock) == clock \div TicksPerDay

\* Routes whose except clause names ValidationError only.
Caught_ValidationErrorOnly(method) == ValidationErrors

\* The exceptions named by the except clause of the routes of a method.
Caught(method) ==
    IF method = "DELETE" THEN ValidationErrors
    ELSE ValidationErrors \cup {BusinessRuleViolation}

\* The answer of a POST, PUT or DELETE route whose try block ended with res.
Responded(method, op, id, res) ==
    [op |-> op, id |-> id, res |-> res,
     policies_to_delete |-> {}, claims_to_delete |-> {},
     method |-> method,
     status |-> IF res = OK THEN (IF method = "POST" THEN 201 ELSE 200)
                ELSE IF res \in Caught(method) THEN 400
                ELSE 500,
     body |-> IF res = OK THEN [message |-> op]
              ELSE IF res \in Caught(method) THEN [error |-> res]
              ELSE [traceback |-> res]]

\* The answer of a GET route for the record ret the engine returned.
Fetched(op, id, ret) ==
    [op |-> op, id |-> id, res |-> OK,
     policies_to_delete |-> {}, claims_to_delete |-> {},
     method |-> "GET",
     status |-> IF ret # None THEN 200 ELSE 404,
     body |-> IF ret # None THEN [record |-> ret[1]] ELSE [error |-> NotFound]]

PostPolicyholders(data) ==
    LET policyholder == Policyholder(data.id, data.name, data.contact_number,
                                     data.email, parse_date(data.date_of_birth))
        r == create_policyholder(policyholders, policyholder, now) IN
    /\ policyholders' = r.policyholders
    /\ last' = Responded("POST", "create_policyholder", data.id, r.res)
    /\ UNCHANGED <<policies, claims, now, calls>>

GetPolicyholders(policyholder_id) ==
    /\ last' = Fetched("get_policyholder", policyholder_id,
                       get_policyholder(policyholders, policyholder_id))
    /\ UNCHANGED <<policyholders, policies, claims, now, calls>>

PutPolicyholders(policyholder_id, data) ==
    LET r == update_policyholder(policyholders, policyholder_id, data.name,
                 data.contact_number, data.email,
                 IF data.date_of_birth # None
                 THEN Some(parse_date(data.date_of_birth[1])) ELSE None, now) IN
    /\ policyholders' = r.policyholders
    /\ last' = Responded("PUT", "update_policyholder", policyholder_id, r.res)
    /\ UNCHANGED <<policies, claims, now, calls>>

DeletePolicyholders(policyholder_id) ==
    LET r == delete_policyholder(policyholders, policies, claims, policyholder_id) IN
    /\ policyholders' = r.policyholders
    /\ policies' = r.policies
    /\ claims' = r.claims
    /\ last' = Responded("DELETE", "delete_policyholder", policyholder_id, r.res)
    /\ UNCHANGED <<now, calls>>

PostPolicies(data) ==
    LET policy == Policy(data.id, data.policyholder_id, data.type,
                         parse_date(data.start_date), parse_date(data.end_date),
                         data.coverage_amount, data.premium)
        r == create_policy(policyholders, policies, policy) IN
    /\ policies' = r.policies
    /\ last' = Responded("POST", "create_policy", data.id, r.res)
    /\ UNCHANGED <<policyholders, claims, now, calls>>

GetPolicies(policy_id) ==
    /\ last' = Fetched("get_policy", policy_id, get_policy(policies, policy_id))
    /\ UNCHANGED <<policyholders, policies, claims, now, calls>>

PutPolicies(policy_id, data) ==
    LET r == update_policy(policyholders, policies, policy_id, data.type,
                 IF data.start_date # None
                 THEN Some(parse_date(data.start_date[1])) ELSE None,
                 IF data.end_date # None
                 THEN Some(parse_date(data.end_date[1])) ELSE None,
                 data.coverage_amount, data.premium) IN
    /\ policies' = r.policies
    /\ last' = Responded("PUT", "update_policy", policy_id, r.res)
    /\ UNCHANGED <<policyholders, claims, now, calls>>

DeletePolicies(policy_id) ==
    LET r == delete_policy(policies, claims, policy_id) IN
    /\ policies' = r.policies
    /\ claims' = r.claims
    /\ last' = Responded("DELETE", "delete_policy", policy_id, r.res)
    /\ UNCHANGED <<policyholders, now, calls>>

\* ClaimStatus(value) raises ValueError for a string that is no status; the
\* engine is then not called.
PostClaims(data) ==
    LET status == IF data.status # None THEN data.status[1] ELSE SUBMITTED
        date_submitted == IF data.date_submitted # None
                          THEN data.date_submitted[1] ELSE Today(now)
        claim == Claim(data.id, data.policy_id, parse_date(data.date_of_incident),
                       data.description, data.amount, status,
                       parse_date(date_submitted))
        r == IF status \notin ClaimStatus
             THEN [res |-> ValueError, claims |-> claims]
             ELSE create_claim(policies, claims, claim) IN
    /\ claims' = r.claims
    /\ last' = Responded("POST", "create_claim", data.id, r.res)
    /\ UNCHANGED <<policyholders, policies, now, calls>>

GetClaims(claim_id) ==
    /\ last' = Fetched("get_claim", claim_id, get_claim(claims, claim_id))
    /\ UNCHANGED <<policyholders, policies, claims, now, calls>>

PutClaims(claim_id, data) ==
    LET r == IF data.status # None /\ data.status[1] \notin ClaimStatus
             THEN [res |-> ValueError, claims |-> claims]
             ELSE update_claim(policies, claims, claim_id, data.description,
                               data.amount, data.status) IN
    /\ claims' = r.claims
    /\ last' = Responded("PUT", "update_claim", claim_id, r.res)
    /\ UNCHANGED <<policyholders, policies, now, calls>>

DeleteClaims(claim_id) ==
    LET r == delete_claim(claims, claim_id) IN
    /\ claims' = r.claims
    /\ last' = Responded("DELETE", "delete_claim", claim_id, r.res)
    /\ UNCHANGED <<policyholders, policies, now, calls>>

(***************************************************************************)
(* SpecApi: the routes called with bodies that the engine accepts and      *)
(* bodies that it rejects for each of its reasons, a status string that    *)
(* is no status, and stored and unknown ids.                               *)
(***************************************************************************)
\* The day the clock starts in, and the day a year before it.
ApiToday == Today(ClockStart)
ApiUnderageDay == ApiToday - DaysPerYear

ApiPolicyholderBodies ==
    {[id |-> HolderPool[1], name |-> NameJ, contact_number |-> ValidPhone,
      email |-> e, date_of_birth |-> d] :
        e \in {ValidEmail, BadEmail}, d \in {0, ApiUnderageDay}}

ApiPolicyholderUpdates ==
    {[name |-> None, contact_number |-> None, email |-> e, date_of_birth |-> d] :
        e \in {None, Some(BadEmail), Some(ValidEmail2)},
        d \in {None, Some(ApiUnderageDay)}}

ApiPolicyBodies ==
    {[id |-> PolicyPool[1], policyholder_id |-> h, type |-> TypeAuto,
      start_date |-> Adult, end_date |-> ApiToday + 10,
      coverage_amount |-> c, premium |-> 1] :
        h \in {HolderPool[1], HolderPool[2]}, c \in {0, MaxAmount}}

ApiPolicyUpdates ==
    {[type |-> None, start_date |-> s, end_date |-> None,
      coverage_amount |-> c, premium |-> None] :
        s \in {None, Some(Adult - 1)}, c \in {None, Some(0), Some(MaxAmount)}}

ApiClaimBodies ==
    {[id |-> ClaimPool[1], policy_id |-> PolicyPool[1], date_of_incident |-> d,
      description |-> DescA, amount |-> a, status |-> st, date_submitted |-> ds] :
        d \in {ApiToday, ApiToday - MaxSubmitDays - 1},
        a \in {1, MaxAmount + 1},
        st \in {None, Some(CLOSED), Some("Bogus")},
        ds \in {None, Some(ApiToday - MaxSubmitDays - 1)}}

ApiClaimUpdates ==
    {[description |-> None, amount |-> a, status |-> st] :
        a \in {None, Some(0), Some(1)},
        st \in {None, Some(APPROVED), Some("Bogus")}}

ApiHolderIds == {HolderPool[1], HolderPool[2]}
ApiPolicyIds == {PolicyPool[1], PolicyPool[2]}
ApiClaimIds == {ClaimPool[1], ClaimPool[2]}

NextApi ==
    \/ Tick
    \/ \E data \in ApiPolicyholderBodies : PostPolicyholders(data)
    \/ \E h \in ApiHolderIds : GetPolicyholders(h)
    \/ \E h \in ApiHolderIds, data \in ApiPolicyholderUpdates : PutPolicyholders(h, data)
    \/ \E h \in ApiHolderIds : DeletePolicyholders(h)
    \/ \E data \in ApiPolicyBodies : PostPolicies(data)
    \/ \E p \in ApiPolicyIds : GetPolicies(p)
    \/ \E p \in ApiPolicyIds, data \in ApiPolicyUpdates : PutPolicies(p, data)
    \/ \E p \in ApiPolicyIds : DeletePolicies(p)
    \/ \E data \in ApiClaimBodies : PostClaims(data)
    \/ \E c \in ApiClaimIds : GetClaims(c)
    \/ \E c \in ApiClaimIds, data \in ApiClaimUpdates : PutClaims(c, data)
    \/ \E c \in ApiClaimIds : DeleteClaims(c)

SpecApi == Init /\ [][NextApi]_vars

(***************************************************************************)
(* SpecPolicyRules: the policies and their holders under the inputs of     *)
(* SpecRules, without claims; update_policy is called with one field,      *)
(* with both dates, with no field, and with the type, the start date, the  *)
(* coverage and the premium together.                                      *)
(***************************************************************************)
WholeRecordPolicyArgs ==
    RulesUpdatePolicyArgs
    \cup {<<t, Some(s), None, Some(c), Some(p)>> :
             t \in {Some(EmptyStr), Some(TypeHome)},
             s \in StartDates, c \in Amounts, p \in Premiums}

NextPolicyRules ==
    \/ \E ph \in RulesPolicyholderInputs : CreatePolicyholder(ph)
    \/ \E d \in BirthDates :
           UpdatePolicyholder(HolderPool[1], None, None, None, Some(d))
    \/ DeletePolicyholder(HolderPool[1])
    \/ \E p \in RulesPolicyInputs : CreatePolicy(p)
    \/ \E a \in WholeRecordPolicyArgs :
           UpdatePolicy(PolicyPool[1], a[1], a[2], a[3], a[4], a[5])
    \/ DeletePolicy(PolicyPool[1])

SpecPolicyRules == Init /\ [][NextPolicyRules]_vars

(***************************************************************************)
(* SpecFormats: the two format validators applied to strings.  Phone       *)
(* numbers are a prefix, a run of digits and a suffix; emails are all      *)
(* strings of up to MaxEmailLen characters over a letter, "@" and ".".     *)
(***************************************************************************)
MaxEmailLen == 6

\* The call of a validator with the string arg.
Validated(op, arg, res) ==
    [op |-> op, id |-> "", res |-> res,
     policies_to_delete |-> {}, claims_to_delete |-> {}, arg |-> arg]

ValidatePhoneNumber(phone) ==
    /\ last' = Validated("_validate_phone_number", phone, _validate_phone_number(phone))
    /\ UNCHANGED <<policyholders, policies, claims, now, calls>>

ValidateEmail(email) ==
    /\ last' = Validated("_validate_email", email, _validate_email(email))
    /\ UNCHANGED <<policyholders, policies, claims, now, calls>>

\* n times the character c.
Repeat(c, n) == [k \in 1..n |-> c]

PhonePrefixes ==
    {<< >>, <<"+">>, <<"1">>, <<"+", "1">>, <<"+", "+">>, <<"1", "+">>, <<"a">>}
PhoneDigitCounts == {0, 8, 9, 10, 14, 15, 16}
PhoneSuffixes == {<< >>, <<"\n">>, <<"a">>, <<"U+0663">>, <<"\n", "\n">>}

PhoneInputs ==
    {p \o Repeat("2", n) \o s :
        p \in PhonePrefixes, n \in PhoneDigitCounts, s \in PhoneSuffixes}

RECURSIVE StringsOver(_, _)
StringsOver(alphabet, n) ==
    IF n = 0 THEN {<< >>}
    ELSE LET shorter == StringsOver(alphabet, n - 1) IN
         shorter \cup {<<c>> \o s : c \in alphabet, s \in shorter}

EmailInputs == StringsOver({"j", "@", "."}, MaxEmailLen)

NextFormats ==
    \/ \E phone \in PhoneInputs : ValidatePhoneNumber(phone)
    \/ \E email \in EmailInputs : ValidateEmail(email)

SpecFormats == Init /\ [][NextFormats]_vars

(***************************************************************************)
(* SpecClaimRules: one policy whose period and coverage are updated while  *)
(* it has claims, so that stored claims fall outside the period or above   *)
(* the coverage; update_claim is called with every combination of omitted, *)
(* empty and new arguments.                                                *)
(***************************************************************************)
ClaimRulesPolicyArgs ==
    {<<None, s, e, None, None>> :
        s \in {None} \cup {Some(d) : d \in StartDates},
        e \in {None} \cup {Some(d) : d \in EndDates}}
    \cup {<<None, None, None, Some(c), None>> : c \in {0, 1, MaxAmount}}

NextClaimRules ==
    \/ CreatePolicyholder(
           Policyholder(HolderPool[1], NameJ, ValidPhone, ValidEmail, Midnight(0)))
    \/ CreatePolicy(
           Policy(PolicyPool[1], HolderPool[1], TypeAuto, Midnight(Adult),
                  Midnight(Adult + 20), MaxAmount, 1))
    \/ \E a \in ClaimRulesPolicyArgs :
           UpdatePolicy(PolicyPool[1], a[1], a[2], a[3], a[4], a[5])
    \/ DeletePolicy(PolicyPool[1])
    \/ \E c \in UpdatesClaimIds, a \in {1, MaxAmount} :
           CreateClaim(Claim(c, PolicyPool[1], IncidentDate, DescA, a,
                             SUBMITTED, IncidentDate))
    \/ \E a \in UpdatesClaimArgs :
           UpdateClaim(ClaimPool[1], a[1], a[2], a[3])
    \/ \E c \in UpdatesClaimIds : DeleteClaim(c)

SpecClaimRules == Init /\ [][NextClaimRules]_vars

(***************************************************************************)
(* SpecInterleave: a delete of a parent on one thread and a create or a    *)
(* delete of one of its descendants on the other, statement by statement   *)
(* and in any interleaving.  The records are created first, one call at a  *)
(* time; then each thread makes one call.  The parent is stored when its   *)
(* delete begins.                                                          *)
(***************************************************************************)
\* The thread that deletes the parent and the thread that works on a child.
ParentThread == CHOOSE t \in Threads : \A u \in Threads : t <= u
ChildThread == CHOOSE t \in Threads : t # ParentThread

InterleavePolicy ==
    Policy(PolicyPool[3], HolderPool[1], TypeHome, Midnight(Adult),
           Midnight(Adult + 20), MaxAmount, 1)

InterleaveClaim ==
    Claim(ClaimPool[4], PolicyPool[1], IncidentDate, DescB, 1, SUBMITTED,
          IncidentDate)

\* No thread has made or begun a call.
Setup == calls = NoCalls

NotBegun(t) == ~Running(t) /\ calls[t].op = NotCalled

NextInterleave ==
    \/ Setup /\ CreatePolicyholder(CascadePolicyholder)
    \/ \E p \in CascadePolicies : Setup /\ CreatePolicy(p)
    \/ \E c \in CascadeClaims : Setup /\ CreateClaim(c)
    \/ /\ NotBegun(ParentThread)
       /\ HolderPool[1] \in DOMAIN policyholders
       /\ Begin(ParentThread, "delete_policyholder", HolderPool[1])
    \/ /\ NotBegun(ParentThread)
       /\ PolicyPool[1] \in DOMAIN policies
       /\ Begin(ParentThread, "delete_policy", PolicyPool[1])
    \/ NotBegun(ChildThread) /\ Begin(ChildThread, "create_policy", InterleavePolicy)
    \/ NotBegun(ChildThread) /\ Begin(ChildThread, "create_claim", InterleaveClaim)
    \/ NotBegun(ChildThread) /\ Begin(ChildThread, "delete_policy", PolicyPool[1])
    \/ NotBegun(ChildThread) /\ Begin(ChildThread, "delete_claim", ClaimPool[1])
    \/ \E t \in Threads : StepCreatePolicy(t)
    \/ \E t \in Threads : StepCreateClaim(t)
    \/ \E t \in Threads : StepDeletePolicyholder(t)
    \/ \E t \in Threads : StepDeletePolicy(t)
    \/ \E t \in Threads : StepDeleteClaim(t)

SpecInterleave == Init /\ [][NextInterleave]_vars

(***************************************************************************)
(* The guarded version of the engine (SCMS_CRUD): policyholders without a  *)
(* date of birth, policies without a premium, and an update_claim that     *)
(* writes and tests field by field and refuses a new status for a Closed   *)
(* claim.  It raises ValidationError only; SpecCRUD creates the records    *)
(* and updates claims with every combination of description, amount and    *)
(* status, given or not.                                                   *)
(***************************************************************************)
CRUD_create_policyholder(phs, policyholder) ==
    IF _validate_email(policyholder.email) # OK
    THEN [res |-> InvalidFormat, policyholders |-> phs]
    ELSE IF _validate_phone_number(policyholder.contact_number) # OK
    THEN [res |-> InvalidFormat, policyholders |-> phs]
    ELSE IF policyholder.id \in DOMAIN phs
    THEN [res |-> DuplicateKey, policyholders |-> phs]
    ELSE [res |-> OK, policyholders |-> Put(phs, policyholder.id, policyholder)]

CRUD_create_policy(phs, pols, policy) ==
    IF policy.policyholder_id \notin DOMAIN phs
    THEN [res |-> NotFound, policies |-> pols]
    ELSE IF policy.id \in DOMAIN pols
    THEN [res |-> DuplicateKey, policies |-> pols]
    ELSE IF policy.start_date >= policy.end_date
    THEN [res |-> InvalidFormat, policies |-> pols]
    ELSE IF policy.coverage_amount <= 0
    THEN [res |-> InvalidFormat, policies |-> pols]
    ELSE [res |-> OK, policies |-> Put(pols, policy.id, policy)]

CRUD_create_claim(pols, cls, claim) ==
    IF claim.policy_id \notin DOMAIN pols
    THEN [res |-> NotFound, claims |-> cls]
    ELSE IF claim.id \in DOMAIN cls
    THEN [res |-> DuplicateKey, claims |-> cls]
    ELSE LET policy == pols[claim.policy_id] IN
         IF \/ claim.date_of_incident < policy.start_date
            \/ claim.date_of_incident > policy.end_date
         THEN [res |-> InvalidFormat, claims |-> cls]
         ELSE IF claim.amount <= 0 \/ claim.amount > policy.coverage_amount
         THEN [res |-> InvalidFormat, claims |-> cls]
         ELSE [res |-> OK, claims |-> Put(cls, claim.id, claim)]

\* update_claim with the Closed guard ahead of every write: nothing of a
\* Closed claim can be changed.
CRUD_update_claim_GuardFirst(pols, cls, claim_id, description, amount, status) ==
    IF claim_id \notin DOMAIN cls
    THEN [res |-> NotFound, claims |-> cls]
    ELSE IF cls[claim_id].status = CLOSED
    THEN [res |-> ClosedClaim, claims |-> cls]
    ELSE
    LET c0 == cls[claim_id]
        c1 == IF TruthyStr(description)
              THEN [c0 EXCEPT !.description = description[1]] ELSE c0
    IN  IF IsGiven(amount) /\ c0.policy_id \notin DOMAIN pols
        THEN [res |-> KeyError, claims |-> [cls EXCEPT ![claim_id] = c1]]
        ELSE IF /\ IsGiven(amount)
                /\ \/ amount[1] <= 0
                   \/ amount[1] > pols[c0.policy_id].coverage_amount
        THEN [res |-> InvalidFormat, claims |-> [cls EXCEPT ![claim_id] = c1]]
        ELSE
        LET c2 == IF IsGiven(amount) THEN [c1 EXCEPT !.amount = amount[1]] ELSE c1
            c3 == IF IsGiven(status) THEN [c2 EXCEPT !.status = status[1]] ELSE c2
        IN  [res |-> OK, claims |-> [cls EXCEPT ![claim_id] = c3]]

\* The claim is the stored object, so each assignment is a write to the
\* store and stays when a later statement raises.  A member of ClaimStatus
\* is always truthy: `if status:` is "status was given".
CRUD_update_claim(pols, cls, claim_id, description, amount, status) ==
    IF claim_id \notin DOMAIN cls
    THEN [res |-> NotFound, claims |-> cls]
    ELSE
    LET c0 == cls[claim_id]
        c1 == IF TruthyStr(description)
              THEN [c0 EXCEPT !.description = description[1]] ELSE c0
    IN  IF IsGiven(amount) /\ c0.policy_id \notin DOMAIN pols
        THEN [res |-> KeyError, claims |-> [cls EXCEPT ![claim_id] = c1]]
        ELSE IF /\ IsGiven(amount)
                /\ \/ amount[1] <= 0
                   \/ amount[1] > pols[c0.policy_id].coverage_amount
        THEN [res |-> InvalidFormat, claims |-> [cls EXCEPT ![claim_id] = c1]]
        ELSE
        LET c2 == IF IsGiven(amount) THEN [c1 EXCEPT !.amount = amount[1]] ELSE c1
        IN  IF IsGiven(status) /\ c2.status = CLOSED
            THEN [res |-> ClosedClaim, claims |-> [cls EXCEPT ![claim_id] = c2]]
            ELSE
            LET c3 == IF IsGiven(status)
                      THEN [c2 EXCEPT !.status = status[1]] ELSE c2
            IN  [res |-> OK, claims |-> [cls EXCEPT ![claim_id] = c3]]

CRUDCreatePolicyholder(policyholder) ==
    LET r == CRUD_create_policyholder(policyholders, policyholder) IN
    /\ policyholders' = r.policyholders
    /\ last' = Call("create_policyholder", policyholder.id, r.res)
    /\ UNCHANGED <<policies, claims, now, calls>>

CRUDCreatePolicy(policy) ==
    LET r == CRUD_create_policy(policyholders, policies, policy) IN
    /\ policies' = r.policies
    /\ last' = Call("create_policy", policy.id, r.res)
    /\ UNCHANGED <<policyholders, claims, now, calls>>

CRUDCreateClaim(claim) ==
    LET r == CRUD_create_claim(policies, claims, claim) IN
    /\ claims' = r.claims
    /\ last' = Call("create_claim", claim.id, r.res)
    /\ UNCHANGED <<policyholders, policies, now, calls>>

\* An update: last keeps the arguments next to the result.
Updated(op, id, res, arg) ==
    [op |-> op, id |-> id, res |-> res,
     policies_to_delete |-> {}, claims_to_delete |-> {}, arg |-> arg]

CRUDUpdateClaim(claim_id, description, amount, status) ==
    LET r == CRUD_update_claim(policies, claims, claim_id, description, amount, status) IN
    /\ claims' = r.claims
    /\ last' = Updated("update_claim", claim_id, r.res,
                        <<description, amount, status>>)
    /\ UNCHANGED <<policyholders, policies, now, calls>>

CRUDClaimInputs ==
    {Claim(c, PolicyPool[1], IncidentDate, DescA, 1, SUBMITTED, ClockStart) :
        c \in UpdatesClaimIds}

\* update_claim(description, amount, status)
CRUDUpdateArgs ==
    {<<d, a, st>> :
        d \in {None, Some(EmptyStr), Some(DescB)},
        a \in {None, Some(0), Some(MaxAmount), Some(MaxAmount + 1)},
        st \in {None, Some(APPROVED), Some(CLOSED)}}

NextCRUD ==
    \/ CRUDCreatePolicyholder(
           LLDPolicyholder(HolderPool[1], NameJ, ValidPhone, ValidEmail))
    \/ CRUDCreatePolicy(
           LLDPolicy(PolicyPool[1], HolderPool[1], TypeAuto, Midnight(Adult),
                     Midnight(Adult + 20), MaxAmount))
    \/ \E c \in CRUDClaimInputs : CRUDCreateClaim(c)
    \/ \E c \in ReadIds(ClaimPool, UpdatesClaimIds), a \in CRUDUpdateArgs :
           CRUDUpdateClaim(c, a[1], a[2], a[3])

SpecCRUD == Init /\ [][NextCRUD]_vars

(***************************************************************************)
(* Properties.                                                             *)
(***************************************************************************)
Restrict(d, keys) == [k \in keys |-> d[k]]

\* C1: a call of create_*, update_policy, update_claim or delete_* that
\* fails (raises ValidationError or BusinessRuleViolation) leaves the three
\* dictionaries, every field of every stored record included, as they were.
C1_NoPartialCommit ==
    [][(/\ last'.op \in {"create_policyholder", "create_policy", "create_claim",
                         "update_policy", "update_claim", "delete_policyholder",
                         "delete_policy", "delete_claim"}
        /\ last'.res # OK)
       => (/\ policyholders' = policyholders
           /\ policies' = policies
           /\ claims' = claims)]_vars

\* C2: referential integrity: in every state every stored policy's
\* policyholder_id is a key of policyholders and every stored claim's
\* policy_id is a key of policies.
C2_ReferentialIntegrity ==
    /\ \A p \in DOMAIN policies :
           policies[p].policyholder_id \in DOMAIN policyholders
    /\ \A c \in DOMAIN claims : claims[c].policy_id \in DOMAIN policies

\* A cascading delete of a policyholder has just removed a policy and a claim
\* and left another policyholder with a policy and a claim.
C2_Witness ==
    /\ last.op = "delete_policyholder" /\ last.res = OK
    /\ last.policies_to_delete # {} /\ last.claims_to_delete # {}
    /\ DOMAIN policies # {} /\ DOMAIN claims # {}

\* C3: delete_policyholder(id) on a present id removes the policyholder, every
\* policy whose policyholder_id is id and every claim of those policies, so
\* that get_* of each removed id is None, and it removes or changes nothing
\* else.
C3_DeletePolicyholderCascade ==
    [][(last'.op = "delete_policyholder" /\ last'.res = OK)
       => LET h == last'.id
              gone_p == {p \in DOMAIN policies : policies[p].policyholder_id = h}
              gone_c == {c \in DOMAIN claims : claims[c].policy_id \in gone_p}
          IN  /\ h \in DOMAIN policyholders
              /\ policyholders' = Restrict(policyholders, DOMAIN policyholders \ {h})
              /\ policies' = Restrict(policies, DOMAIN policies \ gone_p)
              /\ claims' = Restrict(claims, DOMAIN claims \ gone_c)
              /\ get_policyholder(policyholders', h) = None
              /\ \A p \in gone_p : get_policy(policies', p) = None
              /\ \A c \in gone_c : get_claim(claims', c) = None]_vars

\* delete_policyholder has removed two policies and a claim, and records of
\* another policyholder are still stored.
C3_Witness ==
    /\ last.op = "delete_policyholder" /\ last.res = OK
    /\ Cardinality(last.policies_to_delete) = 2
    /\ last.claims_to_delete # {}
    /\ DOMAIN policyholders # {}

\* C4: delete_policy(id) on a present id removes that policy and the claims
\* whose policy_id is id, and leaves policyholders, every other policy and
\* the claims of other policies as they were.
C4_DeletePolicyFrame ==
    [][(last'.op = "delete_policy" /\ last'.res = OK)
       => LET p == last'.id
              gone_c == {c \in DOMAIN claims : claims[c].policy_id = p}
          IN  /\ p \in DOMAIN policies
              /\ policyholders' = policyholders
              /\ policies' = Restrict(policies, DOMAIN policies \ {p})
              /\ claims' = Restrict(claims, DOMAIN claims \ gone_c)]_vars

\* delete_policy has removed a claim with its policy, and another policy
\* still has a claim.
C4_Witness ==
    /\ last.op = "delete_policy" /\ last.res = OK
    /\ last.claims_to_delete # {}
    /\ DOMAIN policies # {} /\ DOMAIN claims # {}

\* C5: in every state every stored claim has 0 < amount <= coverage_amount of
\* the policy stored under its policy_id.
C5_ClaimAmountInvariant ==
    \A c \in DOMAIN claims :
        /\ claims[c].policy_id \in DOMAIN policies
        /\ 0 < claims[c].amount
        /\ claims[c].amount <= policies[claims[c].policy_id].coverage_amount

\* C6: in every state every stored claim's date_of_incident lies within
\* [start_date, end_date] of the policy stored under its policy_id.
C6_IncidentDateInvariant ==
    \A c \in DOMAIN claims :
        /\ claims[c].policy_id \in DOMAIN policies
        /\ policies[claims[c].policy_id].start_date <= claims[c].date_of_incident
        /\ claims[c].date_of_incident <= policies[claims[c].policy_id].end_date

\* C7: in every state every stored policy has start_date strictly before
\* end_date, coverage_amount > 0 and premium > 0.
C7_PolicyFieldInvariant ==
    \A p \in DOMAIN policies :
        /\ policies[p].start_date < policies[p].end_date
        /\ policies[p].coverage_amount > 0
        /\ policies[p].premium > 0

\* C8: in every state every stored policy starts at least 18 * 365 days after
\* the date_of_birth of the policyholder stored under its policyholder_id.
C8_AgeAtStartInvariant ==
    \A p \in DOMAIN policies :
        /\ policies[p].policyholder_id \in DOMAIN policyholders
        /\ policies[p].start_date
             - policyholders[policies[p].policyholder_id].date_of_birth
               >= Midnight(AdultYears * DaysPerYear)

\* C9: once a stored claim's status is Closed no call changes any of its
\* fields: it stays Closed with the same fields until it is deleted.
C9_ClosedIsFinal ==
    [][\A c \in DOMAIN claims :
          (claims[c].status = CLOSED /\ c \in DOMAIN claims')
              => claims'[c] = claims[c]]_vars

\* C10: in every state every stored claim has date_submitted >=
\* date_of_incident and date_submitted - date_of_incident <= 30 days.
C10_SubmissionDateInvariant ==
    \A c \in DOMAIN claims :
        /\ claims[c].date_submitted >= claims[c].date_of_incident
        /\ claims[c].date_submitted - claims[c].date_of_incident
               <= Midnight(MaxSubmitDays)


\* C11: while the clock never goes backwards, every stored policyholder has
\* an email and a contact_number that the validators accept and a
\* date_of_birth that is not after now and at least 18 * 365 days before
\* now, whatever create_policyholder and update_policyholder calls, failed
\* ones included, were made.
C11_PolicyholderInvariant ==
    \A h \in DOMAIN policyholders :
        LET ph == policyholders[h] IN
        /\ EmailMatches(ph.email)
        /\ PhoneMatches(ph.contact_number)
        /\ ph.date_of_birth <= now
        /\ now - ph.date_of_birth >= Midnight(AdultYears * DaysPerYear)

\* An update_policyholder call has just failed on a policyholder who came
\* of age only after the clock advanced.
C11_Witness ==
    /\ last.op = "update_policyholder"
    /\ last.res # OK
    /\ last.id \in DOMAIN policyholders
    /\ policyholders[last.id].date_of_birth = Midnight(40) + 1
    /\ policyholders[last.id].name = NameK

\* The outcome of the three field checks of a policyholder, in the order
\* email, contact_number, date_of_birth, stated on the values themselves.
HolderFieldsOutcome(ph, clock) ==
    IF ~EmailMatches(ph.email) THEN InvalidFormat
    ELSE IF ~PhoneMatches(ph.contact_number) THEN InvalidFormat
    ELSE IF ph.date_of_birth > clock THEN InvalidFormat
    ELSE IF clock - ph.date_of_birth < Midnight(AdultYears * DaysPerYear)
         THEN BusinessRuleViolation
         ELSE OK

\* C12 (as stated): create_policyholder(ph) with ph.id already present fails
\* with DuplicateKey and leaves the store unchanged, whatever the email,
\* contact_number and date_of_birth of ph are, because the duplicate check
\* comes before the validators.
C12_DuplicateBeforeValidators ==
    [][\A ph \in HoldersPolicyholderInputs :
          (/\ last'.op = "create_policyholder"
           /\ ph.id \in DOMAIN policyholders
           /\ CreatePolicyholder(ph))
          => /\ last'.res = DuplicateKey
             /\ policyholders' = policyholders]_vars

\* C12 (amended): create_policyholder(ph) with ph.id already present always
\* fails and leaves the store unchanged; the validators run before the
\* duplicate check, so the outcome is DuplicateKey exactly when ph passes the
\* email, phone and date-of-birth checks, and the error of the first failing
\* check otherwise.
C12_DuplicateAfterValidators ==
    [][\A ph \in HoldersPolicyholderInputs :
          (/\ last'.op = "create_policyholder"
           /\ ph.id \in DOMAIN policyholders
           /\ CreatePolicyholder(ph))
          => /\ policyholders' = policyholders
             /\ last'.res = IF HolderFieldsOutcome(ph, now) = OK
                            THEN DuplicateKey
                            ELSE HolderFieldsOutcome(ph, now)]_vars

\* create_policyholder has just been refused for an id that is present.
C12_Witness ==
    /\ last.op = "create_policyholder"
    /\ last.res = DuplicateKey
    /\ last.id \in DOMAIN policyholders

\* The checks of a new policy other than the two on its keys, stated on the
\* values: the format checks, then the age of the holder at the start date.
PolicyFieldsOutcome(phs, p) ==
    IF \/ p.start_date >= p.end_date
       \/ p.coverage_amount <= 0
       \/ p.premium <= 0
    THEN InvalidFormat
    ELSE IF p.start_date - phs[p.policyholder_id].date_of_birth
                < Midnight(AdultYears * DaysPerYear)
         THEN BusinessRuleViolation
         ELSE OK

\* NotFound, then DuplicateKey, then the field checks.
PolicyOutcomeDuplicateFirst(phs, pols, p) ==
    IF p.policyholder_id \notin DOMAIN phs THEN NotFound
    ELSE IF p.id \in DOMAIN pols THEN DuplicateKey
    ELSE PolicyFieldsOutcome(phs, p)

\* NotFound, then the field checks, then DuplicateKey.
PolicyOutcomeDuplicateLast(phs, pols, p) ==
    IF p.policyholder_id \notin DOMAIN phs THEN NotFound
    ELSE IF PolicyFieldsOutcome(phs, p) # OK THEN PolicyFieldsOutcome(phs, p)
    ELSE IF p.id \in DOMAIN pols THEN DuplicateKey
    ELSE OK

\* C13 (as stated): create_policy(p) gives NotFound if p.policyholder_id is
\* unknown; otherwise DuplicateKey if p.id is present; otherwise
\* InvalidFormat if start_date >= end_date, coverage_amount <= 0 or
\* premium <= 0; otherwise BusinessRuleViolation if the holder is under
\* 18 * 365 days old at start_date; otherwise p is inserted.  A present p.id
\* with invalid dates yields DuplicateKey.
C13_PolicyDuplicateBeforeFields ==
    [][\A p \in CreatePolicyInputs :
          (last'.op = "create_policy" /\ CreatePolicy(p))
          => LET o == PolicyOutcomeDuplicateFirst(policyholders, policies, p) IN
             /\ last'.res = o
             /\ policies' = IF o = OK THEN Put(policies, p.id, p) ELSE policies]_vars

\* C13 (amended): create_policy(p) gives NotFound if p.policyholder_id is
\* unknown; otherwise InvalidFormat if start_date >= end_date,
\* coverage_amount <= 0 or premium <= 0; otherwise BusinessRuleViolation if
\* the holder is under 18 * 365 days old at start_date; otherwise
\* DuplicateKey if p.id is present; otherwise p is inserted.  A present p.id
\* with invalid dates yields InvalidFormat.
C13_PolicyDuplicateAfterFields ==
    [][\A p \in CreatePolicyInputs :
          (last'.op = "create_policy" /\ CreatePolicy(p))
          => LET o == PolicyOutcomeDuplicateLast(policyholders, policies, p) IN
             /\ last'.res = o
             /\ policies' = IF o = OK THEN Put(policies, p.id, p) ELSE policies]_vars

\* create_policy has just been refused as a duplicate: the policy of that id
\* is stored and its holder is known.
C13_Witness ==
    /\ last.op = "create_policy"
    /\ last.res = DuplicateKey
    /\ last.id \in DOMAIN policies
    /\ policies[last.id].policyholder_id \in DOMAIN policyholders

\* The format checks of a new claim against its policy, stated on the values.
ClaimFormatInvalid(pols, c) ==
    \/ c.date_of_incident < pols[c.policy_id].start_date
    \/ c.date_of_incident > pols[c.policy_id].end_date
    \/ c.amount <= 0
    \/ c.amount > pols[c.policy_id].coverage_amount
    \/ c.date_submitted < c.date_of_incident

\* Submitted more than 30 days after the incident.
ClaimLate(c) == c.date_submitted - c.date_of_incident > Midnight(MaxSubmitDays)

\* NotFound, then DuplicateKey, then the format checks, then the 30 days.
ClaimOutcomeDuplicateFirst(pols, cls, c) ==
    IF c.policy_id \notin DOMAIN pols THEN NotFound
    ELSE IF c.id \in DOMAIN cls THEN DuplicateKey
    ELSE IF ClaimFormatInvalid(pols, c) THEN InvalidFormat
    ELSE IF ClaimLate(c) THEN BusinessRuleViolation
    ELSE OK

\* C14: create_claim(c) gives NotFound if c.policy_id is unknown; otherwise
\* DuplicateKey if c.id is present; otherwise InvalidFormat if the incident
\* date is outside the policy period, amount <= 0, amount > coverage_amount
\* or date_submitted < date_of_incident; otherwise BusinessRuleViolation if
\* date_submitted - date_of_incident is more than 30 days; otherwise c is
\* inserted.  A present c.id with an over-coverage amount or a late
\* submission yields DuplicateKey.
C14_ClaimPrecedence ==
    [][\A c \in CreateClaimInputs :
          (last'.op = "create_claim" /\ CreateClaim(c))
          => LET o == ClaimOutcomeDuplicateFirst(policies, claims, c) IN
             /\ last'.res = o
             /\ claims' = IF o = OK THEN Put(claims, c.id, c) ELSE claims]_vars

\* C15 (as stated): create_policy with start_date >= end_date fails with
\* InvalidFormat whatever the other fields of the policy and the contents of
\* the store are (unknown policyholder_id, id already present and
\* non-positive amounts included), and nothing is inserted.
C15_InvalidDatesAlwaysInvalidFormat ==
    [][\A p \in CreatePolicyInputs :
          (/\ last'.op = "create_policy"
           /\ p.start_date >= p.end_date
           /\ CreatePolicy(p))
          => /\ last'.res = InvalidFormat
             /\ policies' = policies]_vars

\* C15 (amended): create_policy with start_date >= end_date always fails and
\* inserts nothing; the failure is InvalidFormat whenever policyholder_id is
\* known (id already present and non-positive amounts included) and
\* NotFound when policyholder_id is unknown.
C15_InvalidDatesAfterHolderLookup ==
    [][\A p \in CreatePolicyInputs :
          (/\ last'.op = "create_policy"
           /\ p.start_date >= p.end_date
           /\ CreatePolicy(p))
          => /\ last'.res = IF p.policyholder_id \in DOMAIN policyholders
                            THEN InvalidFormat ELSE NotFound
             /\ policies' = policies]_vars

\* create_policy has just been refused with InvalidFormat although the id
\* it was given is present.
C15_Witness ==
    /\ last.op = "create_policy"
    /\ last.res = InvalidFormat
    /\ last.id \in DOMAIN policies
    /\ policies[last.id].start_date < policies[last.id].end_date

\* A claim that is valid apart from the comparison of its amount with the
\* coverage: unused id, incident inside the period of its stored policy, a
\* positive amount, submitted on or after the incident and no more than 30
\* days after it.
ClaimValidApartFromCoverage(pols, cls, c) ==
    /\ c.policy_id \in DOMAIN pols
    /\ c.id \notin DOMAIN cls
    /\ c.date_of_incident >= pols[c.policy_id].start_date
    /\ c.date_of_incident <= pols[c.policy_id].end_date
    /\ c.amount > 0
    /\ c.date_submitted >= c.date_of_incident
    /\ c.date_submitted - c.date_of_incident <= Midnight(MaxSubmitDays)

\* C16: for an otherwise valid claim on an existing policy, create_claim
\* fails when amount > coverage_amount, with InvalidFormat and never with
\* BusinessRuleViolation, and inserts nothing; it succeeds and inserts the
\* claim when amount = coverage_amount.
C16_CoverageBoundary ==
    [][\A c \in CreateClaimInputs :
          (/\ last'.op = "create_claim"
           /\ ClaimValidApartFromCoverage(policies, claims, c)
           /\ CreateClaim(c))
          => /\ c.amount > policies[c.policy_id].coverage_amount
                => (last'.res = InvalidFormat /\ claims' = claims)
             /\ c.amount = policies[c.policy_id].coverage_amount
                => (last'.res = OK /\ claims' = Put(claims, c.id, c))]_vars

\* create_claim has just inserted a claim whose amount is the coverage of
\* its policy.
C16_Witness ==
    /\ last.op = "create_claim"
    /\ last.res = OK
    /\ last.id \in DOMAIN claims
    /\ claims[last.id].amount = policies[claims[last.id].policy_id].coverage_amount
    /\ claims[last.id].amount > 0

\* A claim that is valid apart from the time between incident and
\* submission: unused id, stored policy, incident inside its period, amount
\* positive and within the coverage, submitted on or after the incident.
ClaimValidApartFromDelay(pols, cls, c) ==
    /\ c.policy_id \in DOMAIN pols
    /\ c.id \notin DOMAIN cls
    /\ c.date_of_incident >= pols[c.policy_id].start_date
    /\ c.date_of_incident <= pols[c.policy_id].end_date
    /\ c.amount > 0
    /\ c.amount <= pols[c.policy_id].coverage_amount
    /\ c.date_submitted >= c.date_of_incident

\* C17: for an otherwise valid claim, create_claim fails with
\* BusinessRuleViolation, inserting nothing, when date_submitted -
\* date_of_incident is more than 30 days, and succeeds when it is exactly
\* 30 days.
C17_SubmissionBoundary ==
    [][\A c \in CreateClaimInputs :
          (/\ last'.op = "create_claim"
           /\ ClaimValidApartFromDelay(policies, claims, c)
           /\ CreateClaim(c))
          => /\ c.date_submitted - c.date_of_incident > Midnight(MaxSubmitDays)
                => (last'.res = BusinessRuleViolation /\ claims' = claims)
             /\ c.date_submitted - c.date_of_incident = Midnight(MaxSubmitDays)
                => (last'.res = OK /\ claims' = Put(claims, c.id, c))]_vars

\* The verdict on a date of birth, stated on the time elapsed: after now,
\* less than 18 * 365 days before now, or at least 18 * 365 days before now.
DateOfBirthOutcome(d, clock) ==
    IF d > clock THEN InvalidFormat
    ELSE IF clock - d < Midnight(AdultYears * DaysPerYear)
         THEN BusinessRuleViolation
         ELSE OK

\* update_policyholder with a date of birth only, on a stored policyholder:
\* the result is the verdict on the date, which is written when accepted.
DateOfBirthValidation ==
    \A d \in {Midnight(10), Midnight(40) + 1, ClockStart + 1} :
        (/\ last'.op = "update_policyholder"
         /\ HolderPool[1] \in DOMAIN policyholders
         /\ UpdatePolicyholder(HolderPool[1], None, None, None, Some(d)))
        => /\ last'.res = DateOfBirthOutcome(d, now)
           /\ policyholders'[HolderPool[1]].date_of_birth =
                  IF DateOfBirthOutcome(d, now) = OK
                  THEN d ELSE policyholders[HolderPool[1]].date_of_birth

\* C18 (as stated): a date of birth after now fails with InvalidFormat; one
\* not after now and less than 18 * 365 days before now fails with
\* BusinessRuleViolation; one at least 18 * 365 days before now is accepted,
\* the boundary included; create_policyholder of an underage holder fails
\* with BusinessRuleViolation and inserts nothing.
C18_UnderageAlwaysBusinessRule ==
    [][/\ DateOfBirthValidation
       /\ \A ph \in HoldersPolicyholderInputs :
              (/\ last'.op = "create_policyholder"
               /\ DateOfBirthOutcome(ph.date_of_birth, now) = BusinessRuleViolation
               /\ CreatePolicyholder(ph))
              => /\ last'.res = BusinessRuleViolation
                 /\ policyholders' = policyholders]_vars

\* C18 (amended): the three verdicts on a date of birth as stated;
\* create_policyholder of an underage holder whose email and contact_number
\* pass their validators fails with BusinessRuleViolation and inserts
\* nothing, and with a rejected email or contact_number it fails with
\* InvalidFormat and inserts nothing.
C18_UnderageAfterEmailAndPhone ==
    [][/\ DateOfBirthValidation
       /\ \A ph \in HoldersPolicyholderInputs :
              (/\ last'.op = "create_policyholder"
               /\ DateOfBirthOutcome(ph.date_of_birth, now) = BusinessRuleViolation
               /\ CreatePolicyholder(ph))
              => /\ last'.res = IF /\ EmailMatches(ph.email)
                                   /\ PhoneMatches(ph.contact_number)
                                THEN BusinessRuleViolation ELSE InvalidFormat
                 /\ policyholders' = policyholders]_vars

\* create_policyholder has just been refused with BusinessRuleViolation and
\* the policyholder is not stored.
C18_Witness ==
    /\ last.op = "create_policyholder"
    /\ last.res = BusinessRuleViolation
    /\ last.id \notin DOMAIN policyholders

\* C19: create_policyholder of a policyholder with an accepted email, an
\* accepted contact_number, a date of birth not after now and at least
\* 18 * 365 days before now, and an id that is not present, succeeds, and
\* get_policyholder of that id then returns a value equal to the one
\* created; get_policyholder keeps returning the same value until an update
\* or a delete of that id.
C19_CreateGetRoundTrip ==
    [][/\ \A ph \in HoldersPolicyholderInputs :
              (/\ last'.op = "create_policyholder"
               /\ HolderFieldsOutcome(ph, now) = OK
               /\ ph.id \notin DOMAIN policyholders
               /\ CreatePolicyholder(ph))
              => /\ last'.res = OK
                 /\ get_policyholder(policyholders', ph.id) = Some(ph)
       /\ \A h \in DOMAIN policyholders :
              \/ last'.op \in {"update_policyholder", "delete_policyholder"}
                 /\ last'.id = h
              \/ get_policyholder(policyholders', h)
                     = get_policyholder(policyholders, h)]_vars

\* A policyholder created with a date of birth exactly 18 * 365 days before
\* the time of the call is stored as created while other calls are made.
C19_Witness ==
    /\ last.op \in {"create_policy", "create_policyholder", "tick"}
    /\ last.id # HolderPool[1]
    /\ get_policyholder(policyholders, HolderPool[1])
           = Some(Policyholder(HolderPool[1], NameJ, ValidPhone, ValidEmail,
                               Midnight(40) + 1))

\* An optional string that is given and not empty, or None.
NonEmpty(o) == IF o # None /\ o[1] # EmptyStr THEN o ELSE None

\* The outcome of processing the given fields one after the other in the
\* order name, contact_number, email, date_of_birth on the stored record
\* p0: each given field is checked and then written; the first rejected
\* field stops the call, so it and the fields after it keep their values.
FieldByField(p0, name, contact_number, email, date_of_birth, clock) ==
    LET dRes == IF date_of_birth = None THEN OK
                ELSE DateOfBirthOutcome(date_of_birth[1], clock)
        stop == IF contact_number # None /\ ~PhoneMatches(contact_number[1]) THEN 2
                ELSE IF email # None /\ ~EmailMatches(email[1]) THEN 3
                ELSE IF dRes # OK THEN 4
                ELSE 5
    IN  [res |-> IF stop \in {2, 3} THEN InvalidFormat
                 ELSE IF stop = 4 THEN dRes ELSE OK,
         policyholder |->
             [id |-> p0.id,
              name |-> IF name # None THEN name[1] ELSE p0.name,
              contact_number |-> IF contact_number # None /\ stop > 2
                                 THEN contact_number[1] ELSE p0.contact_number,
              email |-> IF email # None /\ stop > 3
                        THEN email[1] ELSE p0.email,
              date_of_birth |-> IF date_of_birth # None /\ stop > 4
                                THEN date_of_birth[1] ELSE p0.date_of_birth]]

\* C20 (as stated): update_policyholder processes the provided fields in the
\* order name, contact_number, email, date_of_birth, each validated
\* immediately before it is written; when the validator of a provided field
\* fails the call fails, that field and all later fields keep their old
\* values, and every earlier provided field has its new value.  Stated of
\* the call with each argument list in each reachable state.
C20_FieldByFieldProvided ==
    \A a \in HoldersUpdateArgs :
        HolderPool[1] \in DOMAIN policyholders
        => LET r == update_policyholder(policyholders, HolderPool[1],
                                        a[1], a[2], a[3], a[4], now)
               o == FieldByField(policyholders[HolderPool[1]],
                                 a[1], a[2], a[3], a[4], now)
           IN  /\ r.res = o.res
               /\ r.policyholders[HolderPool[1]] = o.policyholder

\* C20 (amended): as stated, for the fields that are provided and not
\* empty; a name, contact_number or email given as the empty string is
\* skipped like an omitted one, neither validated nor written.
C20_FieldByFieldNonEmpty ==
    \A a \in HoldersUpdateArgs :
        HolderPool[1] \in DOMAIN policyholders
        => LET r == update_policyholder(policyholders, HolderPool[1],
                                        a[1], a[2], a[3], a[4], now)
               o == FieldByField(policyholders[HolderPool[1]], NonEmpty(a[1]),
                                 NonEmpty(a[2]), NonEmpty(a[3]), a[4], now)
           IN  /\ r.res = o.res
               /\ r.policyholders[HolderPool[1]] = o.policyholder
               /\ \A h \in DOMAIN policyholders \ {HolderPool[1]} :
                      r.policyholders[h] = policyholders[h]

\* update_policyholder has just failed on the email or the date of birth
\* after the name and the contact_number were rewritten.
C20_Witness ==
    /\ last.op = "update_policyholder"
    /\ last.res # OK
    /\ last.id = HolderPool[1]
    /\ HolderPool[1] \in DOMAIN policyholders
    /\ policyholders[HolderPool[1]].name = NameK
    /\ policyholders[HolderPool[1]].contact_number = ValidPhone2
    /\ policyholders[HolderPool[1]].email = ValidEmail
    /\ policyholders[HolderPool[1]].date_of_birth = Midnight(0)

\* The mapping an update or a delete looks its id up in.
MappingOf(op) ==
    IF op \in {"update_policyholder", "delete_policyholder"} THEN policyholders
    ELSE IF op \in {"update_policy", "delete_policy"} THEN policies
    ELSE claims

\* C21: update_policyholder, update_policy, update_claim,
\* delete_policyholder, delete_policy and delete_claim, called with an id
\* that is absent from its mapping, fail with NotFound and leave the three
\* mappings unchanged.
C21_AbsentIdNotFound ==
    [][(/\ last'.op \in {"update_policyholder", "update_policy", "update_claim",
                         "delete_policyholder", "delete_policy", "delete_claim"}
        /\ last'.id \notin DOMAIN MappingOf(last'.op))
       => /\ last'.res = NotFound
          /\ UNCHANGED <<policyholders, policies, claims>>]_vars

\* delete_claim has just been refused for an id that is not stored, while
\* other claims are.
C21_Witness ==
    /\ last.op = "delete_claim"
    /\ last.res = NotFound
    /\ last.id \notin DOMAIN claims
    /\ claims # EmptyDict

\* What a read of id in mapping d returns: the stored record, or None.
Stored(d, id) == IF id \in DOMAIN d THEN Some(d[id]) ELSE None

\* C22: get_policyholder, get_policy and get_claim never fail and never
\* change the store; for a present id they return the record stored at the
\* time of the call and for an absent id they return None, in every
\* reachable state.
C22_ReadsReturnStored ==
    [][/\ last'.op \in {"get_policyholder", "get_policy", "get_claim"}
          => (last'.res = OK /\ UNCHANGED <<policyholders, policies, claims>>)
       /\ last'.op = "get_policyholder"
          => last'.ret = Stored(policyholders, last'.id)
       /\ last'.op = "get_policy"
          => last'.ret = Stored(policies, last'.id)
       /\ last'.op = "get_claim"
          => last'.ret = Stored(claims, last'.id)]_vars

\* get_policyholder has just returned the stored record of a policyholder,
\* while the other policyholder is absent and a claim is stored.
C22_Witness ==
    /\ last.op = "get_policyholder"
    /\ last.id \in DOMAIN policyholders
    /\ last.ret = Some(policyholders[last.id])
    /\ DOMAIN policyholders # HolderIds
    /\ claims # EmptyDict

\* The value of a field after a successful update: the provided value, or
\* the old one when the argument is omitted.
FieldAfter(old, o) == IF o # None THEN o[1] ELSE old

PolicyholderAfter(p0, a) ==
    [id |-> p0.id,
     name |-> FieldAfter(p0.name, a[1]),
     contact_number |-> FieldAfter(p0.contact_number, a[2]),
     email |-> FieldAfter(p0.email, a[3]),
     date_of_birth |-> FieldAfter(p0.date_of_birth, a[4])]

PolicyAfter(p0, a) ==
    [id |-> p0.id, policyholder_id |-> p0.policyholder_id,
     type |-> FieldAfter(p0.type, a[1]),
     start_date |-> FieldAfter(p0.start_date, a[2]),
     end_date |-> FieldAfter(p0.end_date, a[3]),
     coverage_amount |-> FieldAfter(p0.coverage_amount, a[4]),
     premium |-> FieldAfter(p0.premium, a[5])]

ClaimAfter(c0, a) ==
    [id |-> c0.id, policy_id |-> c0.policy_id,
     date_of_incident |-> c0.date_of_incident,
     description |-> FieldAfter(c0.description, a[1]),
     amount |-> FieldAfter(c0.amount, a[2]),
     status |-> FieldAfter(c0.status, a[3]),
     date_submitted |-> c0.date_submitted]

\* The mapping an update or delete works on, after the call.
MappingAfter(op) ==
    IF op \in {"update_policyholder", "delete_policyholder"} THEN policyholders'
    ELSE IF op \in {"update_policy", "delete_policy"} THEN policies'
    ELSE claims'

\* A successful update of any kind leaves the other two mappings and the
\* other records of its own mapping as they were.
UpdateLeavesOthers ==
    (/\ last'.op \in {"update_policyholder", "update_policy", "update_claim"}
     /\ last'.res = OK)
    => /\ last'.op # "update_policyholder" => policyholders' = policyholders
       /\ last'.op # "update_policy" => policies' = policies
       /\ last'.op # "update_claim" => claims' = claims
       /\ DOMAIN MappingAfter(last'.op) = DOMAIN MappingOf(last'.op)
       /\ \A k \in DOMAIN MappingOf(last'.op) \ {last'.id} :
              MappingAfter(last'.op)[k] = MappingOf(last'.op)[k]

\* C23 (as stated): after a successful update_policyholder, update_policy or
\* update_claim every provided field of the record holds the provided value
\* and every field that was not provided holds its old value; all other
\* records are unchanged.  Stated of the call with each argument list in
\* each reachable state, and of every update step.
C23_ProvidedFieldsWritten ==
    /\ [](/\ \A a \in UpdatesPolicyholderArgs :
                 HolderPool[1] \in DOMAIN policyholders
                 => LET r == update_policyholder(policyholders, HolderPool[1],
                                                 a[1], a[2], a[3], a[4], now)
                    IN  r.res = OK
                        => r.policyholders[HolderPool[1]]
                           = PolicyholderAfter(policyholders[HolderPool[1]], a)
          /\ \A a \in UpdatesPolicyArgs :
                 PolicyPool[1] \in DOMAIN policies
                 => LET r == update_policy(policyholders, policies, PolicyPool[1],
                                           a[1], a[2], a[3], a[4], a[5])
                    IN  r.res = OK
                        => r.policies[PolicyPool[1]]
                           = PolicyAfter(policies[PolicyPool[1]], a)
          /\ \A a \in UpdatesClaimArgs :
                 ClaimPool[1] \in DOMAIN claims
                 => LET r == update_claim(policies, claims, ClaimPool[1],
                                          a[1], a[2], a[3])
                    IN  r.res = OK
                        => r.claims[ClaimPool[1]]
                           = ClaimAfter(claims[ClaimPool[1]], a))
    /\ [][UpdateLeavesOthers]_vars

\* C23 (amended): as stated, for the fields that are provided and not
\* empty; a name, contact_number, email, type or description given as the
\* empty string is skipped like an omitted one and the field keeps its old
\* value.
C23_NonEmptyFieldsWritten ==
    /\ [](/\ \A a \in UpdatesPolicyholderArgs :
                 HolderPool[1] \in DOMAIN policyholders
                 => LET r == update_policyholder(policyholders, HolderPool[1],
                                                 a[1], a[2], a[3], a[4], now)
                    IN  r.res = OK
                        => r.policyholders[HolderPool[1]]
                           = PolicyholderAfter(policyholders[HolderPool[1]],
                                 <<NonEmpty(a[1]), NonEmpty(a[2]),
                                   NonEmpty(a[3]), a[4]>>)
          /\ \A a \in UpdatesPolicyArgs :
                 PolicyPool[1] \in DOMAIN policies
                 => LET r == update_policy(policyholders, policies, PolicyPool[1],
                                           a[1], a[2], a[3], a[4], a[5])
                    IN  r.res = OK
                        => r.policies[PolicyPool[1]]
                           = PolicyAfter(policies[PolicyPool[1]],
                                 <<NonEmpty(a[1]), a[2], a[3], a[4], a[5]>>)
          /\ \A a \in UpdatesClaimArgs :
                 ClaimPool[1] \in DOMAIN claims
                 => LET r == update_claim(policies, claims, ClaimPool[1],
                                          a[1], a[2], a[3])
                    IN  r.res = OK
                        => r.claims[ClaimPool[1]]
                           = ClaimAfter(claims[ClaimPool[1]],
                                 <<NonEmpty(a[1]), a[2], a[3]>>))
    /\ [][UpdateLeavesOthers]_vars

\* update_claim has just succeeded on the first claim, rewriting its
\* description, amount and status, while the second claim is stored with
\* the values it was created with.
C23_Witness ==
    /\ last.op = "update_claim" /\ last.res = OK
    /\ ClaimPool[1] \in DOMAIN claims /\ ClaimPool[2] \in DOMAIN claims
    /\ claims[ClaimPool[1]].description = DescB
    /\ claims[ClaimPool[1]].status = APPROVED
    /\ claims[ClaimPool[2]].description = DescA
    /\ claims[ClaimPool[2]].status = SUBMITTED

\* The whole-record rules of a policy, in clock ticks.
PolicyPasses(phs, p) ==
    /\ p.policyholder_id \in DOMAIN phs
    /\ p.start_date < p.end_date
    /\ p.coverage_amount > 0
    /\ p.premium > 0
    /\ p.start_date - phs[p.policyholder_id].date_of_birth
           >= AdultYears * DaysPerYear * TicksPerDay

\* C24: update_policy on a present id succeeds if and only if the policy
\* obtained by applying all provided fields passes the whole-record
\* validation (holder present, start_date < end_date, coverage_amount > 0,
\* premium > 0, start_date - date_of_birth >= 18*365 days); the validation
\* runs once, after all fields have been applied, also when no field is
\* provided.
C24_UpdatePolicyWholeRecord ==
    \A a \in WholeRecordPolicyArgs :
        PolicyPool[1] \in DOMAIN policies
        => (update_policy(policyholders, policies, PolicyPool[1],
                          a[1], a[2], a[3], a[4], a[5]).res = OK
            <=> PolicyPasses(policyholders,
                             PolicyAfter(policies[PolicyPool[1]], a)))

\* update_policy has just been rejected, leaving a stored policy that does
\* not pass the validation, so that the call without any field fails too.
C24_Witness ==
    /\ last.op = "update_policy" /\ last.res = InvalidFormat
    /\ PolicyPool[1] \in DOMAIN policies
    /\ ~PolicyPasses(policyholders, policies[PolicyPool[1]])
    /\ update_policy(policyholders, policies, PolicyPool[1],
                     None, None, None, None, None).res # OK

\* C25: update_claim has no Closed guard: for a stored Closed claim that
\* still passes validation, update_claim(id, status=s) succeeds for every
\* status s and the stored status becomes s, so a state with the claim moved
\* out of Closed is reachable.
C25_ClosedCanBeReopened ==
    \A c \in DOMAIN claims : \A s \in ClaimStatus :
        (claims[c].status = CLOSED /\ _validate_claim(policies, claims[c]) = OK)
        => LET r == update_claim(policies, claims, c, None, None, Some(s))
           IN  /\ r.res = OK
               /\ r.claims = [claims EXCEPT ![c].status = s]

\* update_claim has just succeeded in moving a claim from Closed to Under
\* Review, a status that is only ever set on a Closed claim.
C25_Witness ==
    /\ last.op = "update_claim" /\ last.res = OK
    /\ last.id \in DOMAIN claims
    /\ claims[last.id].status = UNDER_REVIEW

\* The mapping a create writes.
CreatedIn(op) ==
    IF op = "create_policyholder" THEN policyholders
    ELSE IF op = "create_policy" THEN policies
    ELSE claims

\* Both threads have finished their create op and both records passed the
\* validation: each call ended with success or with DuplicateKey.
BothPassedValidation(op) ==
    \A t \in Threads :
        ~Running(t) /\ calls[t].op = op /\ calls[t].res \in {OK, DuplicateKey}

Successes(op) == {t \in Threads : calls[t].op = op /\ calls[t].res = OK}

\* C26: when two creates with the same id run interleaved on one engine
\* without a lock both can pass the test for a stored id before either
\* inserts; both then return success and the later write replaces the
\* earlier record.  When the calls are serialized, so that neither runs
\* while the other thread is inside the engine, this cannot happen: exactly
\* one of the two creates succeeds.
C26_CheckThenActRace ==
    \A op \in CreateOps :
        BothPassedValidation(op)
        => /\ Successes(op) # {}
           /\ RaceRecord(op, 1).id \in DOMAIN CreatedIn(op)
           /\ CreatedIn(op)[RaceRecord(op, 1).id]
                  \in {RaceRecord(op, t) : t \in Successes(op)}
           /\ (\E t \in Threads : ~calls[t].overlapped)
                  => Cardinality(Successes(op)) = 1

\* Both threads have returned success from create_claim with the same id
\* and the store holds one claim, that of the first thread, whose write
\* came last; the policy it names is that of the second thread, which
\* replaced the first thread's in the same way.
C26_Witness ==
    /\ Successes("create_claim") = Threads
    /\ \A t \in Threads : ~Running(t)
    /\ policies[PolicyPool[1]] = RacePolicy(2)
    /\ claims[ClaimPool[1]] = RaceClaim(1)

\* No stored policy names a policyholder that is not stored and no stored
\* claim names a policy that is not stored.
NoOrphans ==
    /\ \A p \in DOMAIN policies : policies[p].policyholder_id \in DOMAIN policyholders
    /\ \A c \in DOMAIN claims : claims[c].policy_id \in DOMAIN policies

\* C27: within delete_policyholder and delete_policy the dependent child
\* records are removed before the parent's own record is removed, and the
\* cascade is complete when the top-level delete returns; at no
\* intermediate step of a delete does the store contain a policy whose
\* policyholder is already gone or a claim whose policy is already gone.
\* Stated of every state of the calls run statement by statement, one call
\* at a time, and of every step that removes a parent.
C27_ChildrenBeforeParent ==
    /\ []NoOrphans
    /\ []((last.op = "delete_policyholder" /\ last.res = OK
           /\ \A t \in Threads : ~Running(t))
          => policies_of_policyholder(policies, last.id) = {})
    /\ [][/\ \A h \in DOMAIN policyholders \ DOMAIN policyholders' :
                 policies_of_policyholder(policies, h) = {}
          /\ \A p \in DOMAIN policies \ DOMAIN policies' :
                 claims_of_policy(claims, p) = {}]_vars

\* C28: in the base version (SCMS_LLD), for a stored claim whose status is
\* not Closed update_claim_status(id, s) succeeds for every status s of the
\* five, to Closed and back to Submitted included, and the stored status
\* becomes s; for a claim whose status is Closed it fails and the status
\* stays Closed, so Closed is absorbing under any sequence of calls.
C28_BaseStatusWorkflow ==
    [][/\ \A c \in DOMAIN claims : \A s \in ClaimStatus :
              (last'.op = "update_claim_status" /\ UpdateClaimStatus(c, s))
              => IF claims[c].status # CLOSED
                 THEN /\ last'.res = OK
                      /\ claims' = [claims EXCEPT ![c].status = s]
                 ELSE /\ last'.res \notin {OK, NotFound}
                      /\ claims' = claims
       /\ \A c \in DOMAIN claims :
              claims[c].status = CLOSED
              => c \in DOMAIN claims' /\ claims'[c].status = CLOSED]_vars

\* update_claim_status has just been refused on a Closed claim, while
\* another claim has been moved to Rejected, a status no claim is
\* submitted with.
C28_Witness ==
    /\ last.op = "update_claim_status" /\ last.res = ClosedClaim
    /\ claims[last.id].status = CLOSED
    /\ \E c \in DOMAIN claims : claims[c].status = REJECTED

\* C29: a claim created with date_submitted omitted (the creation time) and
\* status omitted (Submitted) is accepted and stored with status Submitted
\* whenever its policy exists, its id is unused, its date_of_incident lies
\* within the policy period and 0 < amount <= coverage_amount.
C29_DefaultsAccepted ==
    [][\A x \in DefaultsClaimInputs :
          (/\ last'.op = "create_claim"
           /\ x[2] \in DOMAIN policies
           /\ x[1] \notin DOMAIN claims
           /\ policies[x[2]].start_date <= x[3]
           /\ x[3] <= policies[x[2]].end_date
           /\ 0 < x[4] /\ x[4] <= policies[x[2]].coverage_amount
           /\ CreateClaimWithDefaults(x[1], x[2], x[3], DescA, x[4]))
          => /\ last'.res = OK
             /\ x[1] \in DOMAIN claims'
             /\ claims'[x[1]].status = SUBMITTED]_vars

\* The mapping a read looks in.
MappingOfRead(op) ==
    IF op = "get_policyholder" THEN policyholders
    ELSE IF op = "get_policy" THEN policies
    ELSE claims

\* The results with which the engine fails.
EngineFailures == {NotFound, DuplicateKey, InvalidFormat, BusinessRuleViolation}

\* The last step was a request answered by a route.
IsResponse == "status" \in DOMAIN last

\* C30: at the HTTP boundary (SCMS_api) every engine failure of a POST, PUT
\* or DELETE route (NotFound, DuplicateKey, InvalidFormat or
\* BusinessRuleViolation) is answered with status 400 and a body carrying
\* the error message; a GET of an absent id is answered with 404; a
\* successful create is answered with 201 and every other success with 200.
\* No engine failure escapes a route as an unhandled exception.
C30_HttpMapping ==
    IsResponse
    => /\ (last.method \in {"POST", "PUT", "DELETE"} /\ last.res \in EngineFailures)
              => (last.status = 400 /\ last.body = [error |-> last.res])
       /\ (last.method = "GET" /\ last.id \notin DOMAIN MappingOfRead(last.op))
              => last.status = 404
       /\ (last.method = "GET" /\ last.id \in DOMAIN MappingOfRead(last.op))
              => last.status = 200
       /\ (last.method = "POST" /\ last.res = OK) => last.status = 201
       /\ (last.method \in {"PUT", "DELETE"} /\ last.res = OK) => last.status = 200
       /\ last.status = 500 => last.res \notin EngineFailures

\* A POST has just been refused by a business rule of the engine and
\* answered with 400.
C30_Witness ==
    /\ IsResponse
    /\ last.method = "POST" /\ last.res = BusinessRuleViolation
    /\ last.status = 400

\* An optional leading "+1" followed by between 9 and 15 decimal digits and
\* nothing else.
PlusOneThenDigits(s) ==
    \E prefix \in {<< >>, <<"+", "1">>} :
        /\ Len(s) - Len(prefix) \in 9..15
        /\ SubSeq(s, 1, Len(prefix)) = prefix
        /\ \A k \in (Len(prefix) + 1)..Len(s) : IsDigit(s[k])

\* C31: _validate_phone_number accepts a string if and only if it is an
\* optional leading "+1" followed by between 9 and 15 decimal digits and
\* nothing else; every other string, "+" followed by digits without the "1"
\* or a "1" followed by 15 further digits among them, fails with
\* InvalidFormat.
C31_PhoneFormat ==
    last.op = "_validate_phone_number"
    => /\ last.res = OK <=> PlusOneThenDigits(last.arg)
       /\ last.res # OK => last.res = InvalidFormat

\* The whole string is local@domain.tld: a non-empty local part without
\* "@", one "@", and a domain part without "@" that contains a dot with at
\* least one character before and after it.
LocalAtDomainTld(s) ==
    \E i \in 2..Len(s) :
        /\ s[i] = "@"
        /\ \A k \in 1..Len(s) : s[k] = "@" => k = i
        /\ \E j \in (i + 2)..(Len(s) - 1) : s[j] = "."

\* C32: _validate_email accepts a string if and only if the whole string
\* has the form local@domain.tld; every other string (no "@", no dot in the
\* domain, or extra text such as a second "@" after the tld) fails with
\* InvalidFormat.
C32_EmailFormat ==
    last.op = "_validate_email"
    => /\ last.res = OK <=> LocalAtDomainTld(last.arg)
       /\ last.res # OK => last.res = InvalidFormat

\* The fields of a record that name it and its parent, and the dates of a
\* claim.
KeyFields(record) ==
    [f \in DOMAIN record
           \cap {"id", "policyholder_id", "policy_id", "date_of_incident",
                 "date_submitted"} |-> record[f]]

\* C33: no update operation changes a record's id, a policy's
\* policyholder_id, or a claim's policy_id, date_of_incident or
\* date_submitted; in every reachable state the record stored under key k
\* in each mapping has id = k and still points to the parent it was
\* created under.  Stated of every state and of every step under which a
\* record stays stored.
C33_ImmutableKeys ==
    /\ [](/\ \A k \in DOMAIN policyholders : policyholders[k].id = k
          /\ \A k \in DOMAIN policies : policies[k].id = k
          /\ \A k \in DOMAIN claims : claims[k].id = k)
    /\ [][/\ \A k \in DOMAIN policyholders \cap DOMAIN policyholders' :
                 KeyFields(policyholders'[k]) = KeyFields(policyholders[k])
          /\ \A k \in DOMAIN policies \cap DOMAIN policies' :
                 KeyFields(policies'[k]) = KeyFields(policies[k])
          /\ \A k \in DOMAIN claims \cap DOMAIN claims' :
                 KeyFields(claims'[k]) = KeyFields(claims[k])]_vars

\* update_policy has just succeeded in rewriting the type and the coverage
\* of the policy, which is still that of the first policyholder and still
\* has its two claims.
C33_Witness ==
    /\ last.op = "update_policy" /\ last.res = OK
    /\ policies[PolicyPool[1]].type = TypeHome
    /\ policies[PolicyPool[1]].policyholder_id = HolderPool[1]
    /\ \A c \in UpdatesClaimIds :
           c \in DOMAIN claims /\ claims[c].policy_id = PolicyPool[1]
    /\ claims[ClaimPool[1]].status = APPROVED

\* The rules of _validate_claim for the claim c against the stored policies.
ClaimPasses(pols, c) ==
    /\ c.policy_id \in DOMAIN pols
    /\ pols[c.policy_id].start_date <= c.date_of_incident
    /\ c.date_of_incident <= pols[c.policy_id].end_date
    /\ 0 < c.amount /\ c.amount <= pols[c.policy_id].coverage_amount
    /\ c.date_of_incident <= c.date_submitted
    /\ days(c.date_submitted - c.date_of_incident) <= MaxSubmitDays

OutsidePeriod(pols, c) ==
    /\ c.policy_id \in DOMAIN pols
    /\ \/ c.date_of_incident < pols[c.policy_id].start_date
       \/ c.date_of_incident > pols[c.policy_id].end_date

\* C34: update_claim re-runs the whole claim-against-policy validation on
\* every call, whatever fields are provided: it succeeds if and only if the
\* claim with the provided fields applied passes _validate_claim against
\* the policy as currently stored.  Hence a stored claim whose
\* date_of_incident no longer lies in its policy's period can not be
\* updated successfully, not even with a status-only or empty update, as
\* long as the period stays so.
C34_UpdateClaimRevalidates ==
    \A c \in DOMAIN claims : \A a \in UpdatesClaimArgs :
        LET r == update_claim(policies, claims, c, a[1], a[2], a[3]) IN
        /\ r.res = OK <=> ClaimPasses(policies, ClaimAfter(claims[c], a))
        /\ OutsidePeriod(policies, claims[c]) => r.res # OK

\* update_claim has just been refused on a claim whose incident lies before
\* the start of its policy, which was moved by an update_policy and passes
\* its own validation; the empty update of that claim is refused as well.
C34_Witness ==
    /\ last.op = "update_claim" /\ last.res = InvalidFormat
    /\ last.id \in DOMAIN claims
    /\ OutsidePeriod(policies, claims[last.id])
    /\ PolicyPasses(policyholders, policies[PolicyPool[1]])
    /\ update_claim(policies, claims, last.id, None, None, None).res # OK

\* Both threads are outside the engine.
BothReturned == \A t \in Threads : ~Running(t)

\* C35: when delete_policy(p) (or delete_policyholder(h)) runs interleaved,
\* without a lock, with a create_claim referencing p (or a create_policy
\* referencing h), then once both calls have returned the store contains
\* no claim whose policy_id is absent from policies and no policy whose
\* policyholder_id is absent from policyholders.
C35_NoOrphanAfterInterleaving ==
    (/\ BothReturned
     /\ calls[ParentThread].op \in {"delete_policy", "delete_policyholder"}
     /\ calls[ChildThread].op \in {"create_claim", "create_policy"})
    => NoOrphans

\* The policies of policyholder h and the claims of those policies.
Descendants(h) ==
    LET ps == {p \in DOMAIN policies : policies[p].policyholder_id = h}
    IN  [policies |-> ps,
         claims |-> {c \in DOMAIN claims : claims[c].policy_id \in ps}]

\* C36: delete_policyholder(h) on a present id always returns success with
\* every policy of h and every claim of those policies removed, also when
\* it runs interleaved with a delete_policy or delete_claim of one of h's
\* descendants: the cascade still removes all remaining descendants of h.
C36_CascadeCompletes ==
    (/\ BothReturned
     /\ calls[ParentThread].op = "delete_policyholder"
     /\ calls[ChildThread].op \in {NotCalled, "delete_policy", "delete_claim"})
    => /\ calls[ParentThread].res = OK
       /\ Descendants(HolderPool[1]).policies = {}
       /\ \A c \in DOMAIN claims :
              claims[c].policy_id \notin {p.id : p \in CascadePolicies}

\* This step is SCMS_CRUD.update_claim called on a stored claim whose
\* status is Closed.
UpdatesClosedClaim ==
    /\ last'.op = "update_claim"
    /\ "arg" \in DOMAIN last'
    /\ last'.id \in DOMAIN claims
    /\ claims[last'.id].status = CLOSED

\* The amount of the argument list a passes the test of update_claim for
\* the stored claim c, or none was given.
AmountAccepted(c, a) ==
    IsGiven(a[2]) =>
        /\ a[2][1] > 0
        /\ a[2][1] <= policies[claims[c].policy_id].coverage_amount

\* C37 (as stated): in SCMS_CRUD.update_claim the Closed guard protects the
\* status only.  On a Closed claim a call that provides status fails with
\* "Cannot update a closed claim" and the status stays Closed, but any
\* description and valid amount provided in that call have been written;
\* a call that provides no status succeeds and changes description and
\* amount.
C37_GuardProtectsStatusOnly ==
    [][(UpdatesClosedClaim /\ AmountAccepted(last'.id, last'.arg)) =>
        LET c == last'.id
            a == last'.arg
        IN  /\ last'.res = IF IsGiven(a[3]) THEN ClosedClaim ELSE OK
            /\ claims'[c].status = CLOSED
            /\ IsGiven(a[1]) => claims'[c].description = a[1][1]
            /\ IsGiven(a[2]) => claims'[c].amount = a[2][1]]_vars

\* C37 (amended): as stated, for every description that is not the empty
\* string; a description given as the empty string, like one not given,
\* leaves the stored description.  A call whose amount fails the test
\* fails with the amount's error before the guard is reached, with the
\* non-empty description written and the amount and status as they were.
\* Nothing else of the claim and no other claim changes.
C37_GuardAfterTheWrites ==
    [][UpdatesClosedClaim =>
        LET c == last'.id
            a == last'.arg
            valid == AmountAccepted(c, a)
            description == IF TruthyStr(a[1]) THEN a[1][1]
                           ELSE claims[c].description
            amount == IF IsGiven(a[2]) /\ valid THEN a[2][1]
                      ELSE claims[c].amount
        IN  /\ last'.res = IF ~valid THEN InvalidFormat
                           ELSE IF IsGiven(a[3]) THEN ClosedClaim ELSE OK
            /\ claims' = [claims EXCEPT ![c].description = description,
                                        ![c].amount = amount]]_vars

\* A Closed claim after a call that gave a description, an amount and a
\* status: the call failed on the guard, and the description and the
\* amount of the call are stored.
C37_Witness ==
    /\ last.op = "update_claim"
    /\ "arg" \in DOMAIN last
    /\ last.res = ClosedClaim
    /\ last.arg = <<Some(DescB), Some(MaxAmount), Some(APPROVED)>>
    /\ last.id \in DOMAIN claims
    /\ claims[last.id].status = CLOSED
    /\ claims[last.id].description = DescB
    /\ claims[last.id].amount = MaxAmount

====
